---- MODULE Spec2Model ----
(***************************************************************************)
(* Prediction-market settlement engine.                                     *)
(*                                                                          *)
(* The repository holds two implementations of the bet / resolve / claim    *)
(* path, with separate account layouts:                                     *)
(*   - the instruction modules  instructions/place_bet.rs,                  *)
(*     instructions/resolve_market.rs and instructions/claim_winnings.rs    *)
(*     (u8 outcome index, protocol fee, payout ratio: actions PlaceBet,     *)
(*     ResolveMarket, ClaimWinnings);                                       *)
(*   - the #[program] module of lib.rs (boolean outcome, cancel, refund:    *)
(*     actions place_bet, resolve_market, claim_winnings, cancel_market,    *)
(*     refund_bet, state lib_market / bet / market_vault).                  *)
(* The instruction modules do not share their accounts.  place_bet.rs       *)
(* writes market.outcomes, market.total_volume, the Bet accounts            *)
(* (instr_bet) and the token account of seed "vault" (vault);               *)
(* resolve_market.rs reads market.total_pool, market.outcome_pools and      *)
(* market.resolution_time, which no instruction writes;                     *)
(* claim_winnings.rs reads market.resolved_outcome, market.yes_pool,        *)
(* market.no_pool, the Position accounts (position) and the token           *)
(* account of seed "market_vault" (claim_vault), which no instruction       *)
(* writes, creates or funds.  Every field is modelled where the code        *)
(* reads and writes it.  Next holds every instruction of both programs.     *)
(* CreateSpec starts from unallocated accounts; create_market.rs leaves a   *)
(* market without outcomes, oracle and resolution_time, on which every      *)
(* later instruction fails.  Spec therefore starts from the accounts of a   *)
(* new market as the spec describes it, and SeededSpec, in addition, from   *)
(* account contents put in place directly, so that resolve_market.rs and    *)
(* claim_winnings.rs are exercised past their first constraint.             *)
(* The variable  program  says which of the two implementations a           *)
(* behaviour runs; it is chosen in Init and never changes.  Every           *)
(* instruction is one atomic transaction: a failing instruction leaves      *)
(* all accounts as they were (the runtime discards the writes of a          *)
(* failed transaction) and only records its error in  last.                 *)
(***************************************************************************)
EXTENDS Integers, FiniteSets, Sequences, TLC

\* ---------------------------------------------------------------- bounds
\* Accepted bets per market.
MaxBets == 2
\* Last value of the clock.
MaxTime == 1
\* Accepted bets per market in OddsSpec.
MaxOddsBets == 3
\* No deposit takes a vault of the liquidity pool beyond this in Spec,
\* SeededSpec and CreateSpec.
MaxBettingReserve == 5000
\* No deposit takes a vault of the liquidity pool beyond this in
\* LiquiditySpec and PoolSpec.
MaxReserve == 15000

\* ------------------------------------------------------ program constants
\* Basis-point denominator.
BPS == 10000
\* claim_winnings.rs settles the two outcomes Outcome::Yes / Outcome::No.
NumOutcomes == 2
\* Largest oracle payload accepted by resolve_market.rs.
MaxOracleData == 256
\* Odds recorded when there is no opposing pool (2.0x).
NoOpposingOdds == 20000
\* Odds of an outcome that holds the whole pool (1.0x).
DominantOdds == 10000

Yes == 0
No == 1
OutcomeIds == 0 .. (NumOutcomes - 1)
None == -1
\* Stands for u64::MAX (2^64 - 1), the value of  f64::INFINITY as u64 ; it
\* is larger than every integer the model computes with.
U64Max == -1

\* ------------------------------------------------------------- inputs
Bettors == {"alice", "bob"}
Oracle == "oracle"
Creator == "alice"
Signers == Bettors \cup {Oracle}
DefaultPubkey == "default"

\* Amounts offered to place_bet: the zero bet, one below the market minimum,
\* two accepted amounts and one above the market maximum.
BetAmounts == {0, 10, 50, 1000, 1001}
\* Outcome indexes offered to the instructions (NumOutcomes is out of range).
OutcomeInputs == 0 .. NumOutcomes
\* Fee rates a market is created with, in basis points.
FeeRates == {0, 200}
\* Lengths of the oracle payload offered to resolve.
OracleDataLens == {0, MaxOracleData + 1}
\* Per-market bet limits and per-bet payout caps a market is created with.
MinBetAmounts == {50}
MaxBetAmounts == {1000}
PayoutCaps == {1000, 2000}
\* The deadline of the modelled market.
EndTimes == {1}
\* market.outcome_pools of a new market: the empty vector of a zero-filled
\* account, or one zero per outcome.
ZeroPools == [ i \in 1 .. NumOutcomes |-> 0 ]
CreatedOutcomePools == { << >>, ZeroPools }
\* Amounts offered to place_bet in OddsSpec.
OddsAmounts == {50, 1000}
\* create_market: the initial liquidity paid by the creator.
InitialLiquidity == 1000
\* add_liquidity: the least number of LP tokens of a first deposit.
MinimumLiquidity == 1000
\* add_liquidity: the amounts offered and the least LP tokens accepted.
LiquidityAmounts == {0, 5000, 10000}
MinLpTokens == {0, 5001}
\* remove_liquidity: the LP tokens offered for burning.
LpBurnAmounts == {0, 1, 1000, 3000, 5000}
\* PoolSpec: the LP tokens of each provider, the withdrawal fee of the
\* pool, the tokens of the pool beyond the base amounts, the market status.
SeededShares == { [ u \in Bettors |-> IF u = "alice" THEN sa ELSE sb ] : sa \in {0, 1000}, sb \in {0, 3000} }
WithdrawalFees == {30, 20000}
SeededSurplus == {0, 1}
SeededStatuses == {"Active", "Paused", "Cancelled"}
\* SeededSpec: the pools << total_pool, outcome_pools >> of the markets of
\* resolve_market.rs; the cases << fee rate, yes_pool, no_pool,
\* max_payout_per_bet >> of those of claim_winnings.rs.
SeededPools == { << 2000, << 1000, 1000 >> >>, << 2000, << 2000, 0 >> >>, << 999, << 333, 666 >> >>, << 1000, << >> >> }
SeededClaimCases == { << 200, 1000, 1000, 2000 >>, << 200, 2000, 0, 2000 >>, << 200, 0, 1000, 2000 >>, << 100, 100, 0, 2000 >>, << 100, 50, 1000, 1000 >> }
\* ArithSpec: the operands, as powers of two and small numbers.
WideOperandValues == {0, 1, 1000, 10000, 67108864, 67108866}
WideOperandPowers == {32, 33, 51, 63}

VARIABLES
    program,              \* "instructions" or "lib"
    clock,                \* Clock::get()?.unix_timestamp
    last,                 \* outcome of the latest instruction
    market,               \* instructions/*: the Market account
    instr_bet,            \* place_bet.rs: Bet account per bettor
    vault,                \* place_bet.rs, resolve_market.rs: balance of the vault (seeds "vault")
    position,             \* claim_winnings.rs: Position account per user
    claim_vault,          \* claim_winnings.rs: balance of market_vault (seeds "market_vault")
    protocol_fee_account, \* instructions/*: protocol fee account balance
    user_token_account,   \* instructions/*: net token flow of each user
    lib_market,           \* lib.rs: the Market account
    bet,                  \* lib.rs: Bet account per bettor
    market_vault,         \* lib.rs: market vault balance
    bettor_token_account, \* lib.rs: net token flow of each bettor
    liquidity_pool,       \* instructions/*: the LiquidityPool account
    user_liquidity_position, \* add_liquidity.rs: UserLiquidityPosition per provider (seeds "user_liquidity")
    liquidity_position,   \* remove_liquidity.rs: LiquidityPosition per provider (seeds "liquidity_position")
    lp_token_mint,        \* supply of the LP token mint
    outcome_a_vault,      \* balance of the pool's outcome A vault
    outcome_b_vault,      \* balance of the pool's outcome B vault
    liquidity_vault,      \* balance of the vault funded by create_market
    pool_token_account,   \* balance of the pool's base token account
    provider_lp_token_account,  \* LP token balance of each provider
    provider_outcome_a_account, \* net outcome A token flow of each provider
    provider_outcome_b_account, \* net outcome B token flow of each provider
    provider_token_account,     \* net base token flow of each provider
    calc,                 \* arithmetic of the handlers on full-width operands
    market_stats,         \* create_market.rs: the MarketStats account
    outcome_tokens,       \* create_market.rs: the OutcomeTokens account
    market_resolution,    \* create_market.rs: the MarketResolution account
    creator_token_account \* create_market.rs: net token flow of the creator

claim_accounts == << position, claim_vault >>
instr_vars == << market, instr_bet, vault, protocol_fee_account, user_token_account, claim_accounts >>
lib_vars == << lib_market, bet, market_vault, bettor_token_account >>
pool_accounts == << liquidity_pool, user_liquidity_position, liquidity_position >>
token_accounts == << lp_token_mint, outcome_a_vault, outcome_b_vault, liquidity_vault, pool_token_account, provider_lp_token_account, provider_outcome_a_account, provider_outcome_b_account, provider_token_account >>
liquidity_vars == << pool_accounts, token_accounts >>
create_vars == << market_stats, outcome_tokens, market_resolution, creator_token_account >>

vars == << program, clock, last, instr_vars, lib_vars, liquidity_vars, calc, create_vars >>

\* ------------------------------------------------------------ helpers
\* Result of an instruction, as seen by its caller.
Result(op, err, paid) == [ op |-> op, err |-> err, paid |-> paid ]

NoResult == Result("none", "Ok", 0)

\* An account that no instruction has initialised.
Unallocated == [ status |-> "Unallocated" ]

\* A Bet account of place_bet.rs before the first bet (init_if_needed): all
\* fields zero, bettor = default key.
EmptyInstrBet ==
    [ bettor |-> DefaultPubkey,
      outcomes |-> [ i \in OutcomeIds |-> [ amount |-> 0, odds_at_bet |-> 0 ] ],
      total_amount |-> 0,
      created_at |-> 0,
      last_bet_at |-> 0 ]

\* The Position account of a user for whom none has been created; no
\* handler of the instruction modules creates one.
NoPosition ==
    [ initialized |-> FALSE, user |-> DefaultPubkey, outcome |-> 0, amount |-> 0,
      claimed |-> FALSE, claimed_at |-> 0 ]

\* An uninitialised lib.rs Bet account.
EmptyBet ==
    [ bettor |-> DefaultPubkey, outcome |-> FALSE, amount |-> 0,
      timestamp |-> 0, claimed |-> FALSE ]

\* ------------------------------------------------- wide unsigned integers
\* Values of the u64 and u128 types that exceed the range of the model
\* checker's integers are sequences of limbs in base LimbBase, least
\* significant limb first, with no leading zero limb (0 is the empty
\* sequence).
LimbBits == 15
LimbBase == 32768

RECURSIVE Wide(_)
Wide(n) == IF n = 0 THEN << >> ELSE << n % LimbBase >> \o Wide(n \div LimbBase)

RECURSIVE Narrow(_)
Narrow(x) == IF x = << >> THEN 0 ELSE Head(x) + LimbBase * Narrow(Tail(x))

RECURSIVE WideTrim(_)
WideTrim(x) ==
    IF x = << >> THEN x
    ELSE IF x[Len(x)] = 0 THEN WideTrim(SubSeq(x, 1, Len(x) - 1))
    ELSE x

\* Limbs that may exceed the base, plus a carry, brought back to base form.
RECURSIVE WideCarry(_, _)
WideCarry(x, c) ==
    IF x = << >> THEN Wide(c)
    ELSE LET t == Head(x) + c
         IN << t % LimbBase >> \o WideCarry(Tail(x), t \div LimbBase)

WideLimb(x, i) == IF i <= Len(x) THEN x[i] ELSE 0

WideAdd(x, y) ==
    LET n == IF Len(x) > Len(y) THEN Len(x) ELSE Len(y)
    IN WideTrim(WideCarry([ i \in 1 .. n |-> WideLimb(x, i) + WideLimb(y, i) ], 0))

\* x * d * LimbBase^shift for one limb d.
WideMulLimb(x, d, shift) ==
    WideTrim([ i \in 1 .. shift |-> 0 ] \o WideCarry([ i \in 1 .. Len(x) |-> x[i] * d ], 0))

RECURSIVE WideMulFrom(_, _, _)
WideMulFrom(x, y, j) ==
    IF j > Len(y) THEN << >>
    ELSE WideAdd(WideMulLimb(x, y[j], j - 1), WideMulFrom(x, y, j + 1))

WideMul(x, y) == WideMulFrom(x, y, 1)

RECURSIVE WideLessFrom(_, _, _)
WideLessFrom(x, y, i) ==
    IF i = 0 THEN FALSE
    ELSE IF x[i] # y[i] THEN x[i] < y[i]
    ELSE WideLessFrom(x, y, i - 1)

WideLess(x, y) ==
    IF Len(x) # Len(y) THEN Len(x) < Len(y) ELSE WideLessFrom(x, y, Len(x))

WideLeq(x, y) == ~WideLess(y, x)

\* x - y for y <= x.
RECURSIVE WideBorrow(_, _, _, _)
WideBorrow(x, y, i, b) ==
    IF i > Len(x) THEN << >>
    ELSE LET t == x[i] - WideLimb(y, i) - b
         IN IF t < 0 THEN << t + LimbBase >> \o WideBorrow(x, y, i + 1, 1)
            ELSE << t >> \o WideBorrow(x, y, i + 1, 0)

WideSub(x, y) == WideTrim(WideBorrow(x, y, 1, 0))

RECURSIVE BitLength(_)
BitLength(n) == IF n = 0 THEN 0 ELSE 1 + BitLength(n \div 2)

WideBitLength(x) ==
    IF x = << >> THEN 0 ELSE LimbBits * (Len(x) - 1) + BitLength(x[Len(x)])

RECURSIVE Pow2(_)
Pow2(k) == IF k = 0 THEN 1 ELSE 2 * Pow2(k - 1)

\* 2^k as a wide integer.
WidePow2(k) ==
    [ i \in 1 .. (k \div LimbBits) |-> 0 ] \o << Pow2(k % LimbBits) >>

\* Bit k (from 0) of x.
WideBit(x, k) == (WideLimb(x, (k \div LimbBits) + 1) \div Pow2(k % LimbBits)) % 2

\* The largest digit q with d * q <= r, for r < d * LimbBase, found bit by bit.
RECURSIVE WideDivDigit(_, _, _, _)
WideDivDigit(r, d, bit, q) ==
    IF bit < 0 THEN q
    ELSE IF WideLeq(WideMulLimb(d, q + Pow2(bit), 0), r)
         THEN WideDivDigit(r, d, bit - 1, q + Pow2(bit))
         ELSE WideDivDigit(r, d, bit - 1, q)

\* The element of a one-element set.
Only(S) == CHOOSE v \in S : TRUE

\* One step of the long division: the remainder so far  hi[2]  takes the
\* next limb, and the quotient  hi[1]  its next digit.
WideDivLimb(limb, d, hi) ==
    Only({ Only({ << WideTrim(<< q >> \o hi[1]), WideSub(r, WideMulLimb(d, q, 0)) >> :
                    q \in { WideDivDigit(r, d, LimbBits - 1, 0) } }) :
             r \in { WideTrim(<< limb >> \o hi[2]) } })

\* Long division from the top limb down to limb i; the result is the pair
\* << quotient, remainder >>.
RECURSIVE WideDivFrom(_, _, _)
WideDivFrom(x, d, i) ==
    IF i > Len(x) THEN << << >>, << >> >>
    ELSE Only({ WideDivLimb(x[i], d, hi) : hi \in { WideDivFrom(x, d, i + 1) } })

\* floor(x / d) for d > 0.
WideDiv(x, d) == WideDivFrom(x, d, 1)[1]

\* x mod 2^bits: the value an  as  cast or a wrapping operation keeps.
WideLowBits(x, bits) ==
    IF WideBitLength(x) <= bits THEN x
    ELSE WideSub(x, WideMul(WideDiv(x, WidePow2(bits)), WidePow2(bits)))

\* --------------------------------------------------------- f64 arithmetic
F64MantissaBits == 53
U64Bits == 64
WideU64Max == WideSub(WidePow2(U64Bits), Wide(1))

\* Long division by a divisor d of one limb or one bit more, from the top
\* limb down to limb i; the result is << quotient, remainder >>, the
\* remainder being an integer below d.
RECURSIVE WideDivSmallFrom(_, _, _)
WideDivSmallFrom(x, d, i) ==
    IF i > Len(x) THEN << << >>, 0 >>
    ELSE Only({ << WideTrim(<< (hi[2] * LimbBase + x[i]) \div d >> \o hi[1]),
                   (hi[2] * LimbBase + x[i]) % d >> :
                  hi \in { WideDivSmallFrom(x, d, i + 1) } })

\* floor(x / 2^k)
WideShiftRight(x, k) ==
    IF k \div LimbBits >= Len(x) THEN << >>
    ELSE WideDivSmallFrom(SubSeq(x, (k \div LimbBits) + 1, Len(x)), Pow2(k % LimbBits), 1)[1]

\* x * 2^k
WideShiftLeft(x, k) == WideMulLimb(x, Pow2(k % LimbBits), k \div LimbBits)

\* x mod 2^k = 0
WideLowBitsZero(x, k) ==
    /\ \A i \in 1 .. (k \div LimbBits) : WideLimb(x, i) = 0
    /\ WideLimb(x, (k \div LimbBits) + 1) % Pow2(k % LimbBits) = 0

\* x as f64 : the nearest value with a 53-bit mantissa, ties to even.  The
\* result is an integer, kept as a wide integer.
F64FromWide(x) ==
    IF WideBitLength(x) <= F64MantissaBits THEN x
    ELSE LET t == WideBitLength(x) - F64MantissaBits
         IN Only({ IF WideBit(x, t - 1) = 1
                      /\ (~WideLowBitsZero(x, t - 1) \/ WideBit(m, 0) = 1)
                   THEN WideShiftLeft(WideAdd(m, Wide(1)), t)
                   ELSE WideShiftLeft(m, t) :
                     m \in { WideShiftRight(x, t) } })

\* The largest digit q with (s + q * LimbBase^(i-1))^2 <= y, found bit by bit.
RECURSIVE WideSqrtDigit(_, _, _, _, _)
WideSqrtDigit(y, s, i, bit, q) ==
    IF bit < 0 THEN q
    ELSE LET c == WideAdd(s, WideMulLimb(<< 1 >>, q + Pow2(bit), i - 1))
         IN IF WideLeq(WideMul(c, c), y)
            THEN WideSqrtDigit(y, s, i, bit - 1, q + Pow2(bit))
            ELSE WideSqrtDigit(y, s, i, bit - 1, q)

\* floor(sqrt(y)), one limb of the root at a time from the top.
RECURSIVE WideSqrtFrom(_, _, _)
WideSqrtFrom(y, s, i) ==
    IF i = 0 THEN s
    ELSE Only({ WideSqrtFrom(y, WideAdd(s, WideMulLimb(<< 1 >>, q, i - 1)), i - 1) :
                  q \in { WideSqrtDigit(y, s, i, LimbBits - 1, 0) } })

WideSqrt(y) == WideSqrtFrom(y, << >>, (Len(y) + 1) \div 2)

\* value as u64 for a non-negative integral f64: saturating.
F64AsU64(v) == IF WideBitLength(v) > U64Bits THEN WideU64Max ELSE v

\* floor of the correctly rounded f64 square root of the f64 value y, given
\* s = floor(sqrt(y)).  The rounded root reaches s + 1 exactly when
\* sqrt(y) >= s + 1 - ulp/2, where ulp = 2^(bits(s) - 53) is the spacing of
\* f64 values below s + 1.
F64SqrtFloorSmall(y, s) ==
    LET d == WideSub(WideMul(WideAdd(s, Wide(1)), WideAdd(s, Wide(1))), y)
    IN IF WideLeq(WideMul(d, WidePow2(F64MantissaBits - WideBitLength(s))), s)
       THEN WideAdd(s, Wide(1))
       ELSE s

\* The same for roots of more than 53 bits: the root is rounded to a
\* multiple of  unit = 2^(bits(s) - 53), ties to even.
F64SqrtFloorLarge(y, s) ==
    LET unit == WidePow2(WideBitLength(s) - F64MantissaBits)
        half == WidePow2(WideBitLength(s) - F64MantissaBits - 1)
    IN Only({ Only({ IF WideLess(WideMul(mid, mid), y)
                        \/ (WideMul(mid, mid) = y /\ WideBit(m, 0) = 1)
                     THEN WideMul(WideAdd(m, Wide(1)), unit)
                     ELSE WideMul(m, unit) :
                       mid \in { WideAdd(WideMul(m, unit), half) } }) :
                m \in { WideDiv(s, unit) } })

\* (x as f64).sqrt() as u64  for an unsigned integer x.
F64SqrtAsU64(x) ==
    Only({ Only({ IF WideBitLength(s) <= F64MantissaBits
                  THEN F64SqrtFloorSmall(y, s)
                  ELSE F64AsU64(F64SqrtFloorLarge(y, s)) :
                    s \in { WideSqrt(y) } }) :
             y \in { F64FromWide(x) } })

\* floor(x / d) and whether x is a multiple of d, for an integer d > 0.
WideDivSticky(x, d) ==
    IF d < 2 * LimbBase
    THEN Only({ << qr[1], qr[2] = 0 >> : qr \in { WideDivSmallFrom(x, d, 1) } })
    ELSE Only({ << qr[1], qr[2] = << >> >> : qr \in { WideDivFrom(x, Wide(d), 1) } })

\* num as f64 / den as f64  for integers 0 < num, den < 2^53: the quotient
\* rounded to a 53-bit mantissa, ties to even.  The result is the pair
\* << v, e >> standing for v / 2^e.  The quotient is taken with 56 bits or
\* more and a sticky bit for the remainder below them, then rounded.
F64Quotient(num, den) ==
    LET e == 56 + BitLength(den) - BitLength(num)
    IN Only({ << F64FromWide(WideAdd(WideShiftLeft(qs[1], 1),
                                     IF qs[2] THEN << >> ELSE Wide(1))),
                 e + 1 >> :
                qs \in { WideDivSticky(WideShiftLeft(Wide(num), e), den) } })

\* The f64 odds expression of place_bet.rs: (num / den * 10000.0) as u64,
\* for num, den > 0: the quotient is rounded to f64, its product with
\* 10000.0 is rounded again and the cast truncates.  The result can be one
\* less than floor(num * 10000 / den): 57 / 25 gives 22799.
OddsBps(num, den) ==
    Only({ Narrow(F64AsU64(WideShiftRight(F64FromWide(WideMul(q[1], Wide(BPS))), q[2]))) :
             q \in { F64Quotient(num, den) } })

\* ---------------------------------------------------------------- Init
\* The market right after its creation: Active, all counters zero.  The
\* handlers read the market through different fields: place_bet.rs
\* end_time, outcomes and total_volume; resolve_market.rs resolution_time,
\* total_pool and outcome_pools; claim_winnings.rs resolved_outcome,
\* yes_pool, no_pool and fee_rate.  No handler writes total_pool,
\* outcome_pools, resolved_outcome, yes_pool or no_pool: they keep the
\* value the market is created with.
NewMarket(end_time, resolution_time, rate, min_bet, max_bet, cap, outcome_pools) ==
    [ status |-> "Active",
      end_time |-> end_time,
      oracle |-> Oracle,
      outcomes |-> [ i \in OutcomeIds |->
                       [ total_amount |-> 0, bet_count |-> 0, current_odds |-> 0 ] ],
      total_volume |-> 0,
      total_bets |-> 0,
      last_bet_time |-> 0,
      min_bet_amount |-> min_bet,
      max_bet_amount |-> max_bet,
      max_payout_per_bet |-> cap,
      protocol_fee_rate |-> rate,
      fee_rate |-> rate,
      winning_outcome |-> None,
      resolution_timestamp |-> 0,
      oracle_data |-> 0,
      payout_ratio |-> 0,
      total_claimed |-> 0,
      authority |-> Creator,
      resolution_time |-> resolution_time,
      total_liquidity |-> 0,
      total_pool |-> 0,
      outcome_pools |-> outcome_pools,
      resolved_outcome |-> None,
      yes_pool |-> 0,
      no_pool |-> 0 ]

\* lib.rs initialize_market.
initialize_market(resolution_time, min_bet_amount) ==
    [ creator |-> Creator,
      oracle |-> Oracle,
      resolution_time |-> resolution_time,
      creation_time |-> 0,
      status |-> "Active",
      total_yes_amount |-> 0,
      total_no_amount |-> 0,
      total_volume |-> 0,
      min_bet_amount |-> min_bet_amount,
      resolved_outcome |-> None,
      resolution_timestamp |-> None ]

\* create_market.rs: the liquidity pool right after the creation of the
\* market.  Fields that the handler does not write are zero, as the account
\* is allocated zero-filled.
NewLiquidityPool(initial_liquidity) ==
    [ total_liquidity |-> initial_liquidity,
      yes_reserves |-> initial_liquidity \div 2,
      no_reserves |-> initial_liquidity \div 2,
      k_constant |-> (initial_liquidity \div 2) * (initial_liquidity \div 2),
      fee_rate_bps |-> 30,
      outcome_a_reserve |-> 0,
      outcome_b_reserve |-> 0,
      last_update_time |-> 0,
      total_lp_tokens |-> 0,
      total_fees_collected |-> 0,
      active_providers |-> 0,
      withdrawal_fee_bps |-> 0 ]

\* create_market.rs: the MarketStats account right after the creation.
NewMarketStats(initial_liquidity) ==
    [ total_volume |-> 0,
      total_liquidity |-> initial_liquidity,
      yes_volume |-> 0,
      no_volume |-> 0,
      unique_traders |-> 0,
      total_trades |-> 0,
      last_trade_price |-> 5000,
      yes_price |-> 5000,
      no_price |-> 5000 ]

\* create_market.rs: the OutcomeTokens account right after the creation.
NewOutcomeTokens == [ yes_token_supply |-> 0, no_token_supply |-> 0 ]

\* create_market.rs: the MarketResolution account right after the creation.
NewMarketResolution ==
    [ resolved |-> FALSE,
      resolution_time |-> 0,
      winning_outcome |-> None,
      resolver |-> None,
      resolution_data |-> 0,
      dispute_period_end |-> 0 ]

\* The accounts of create_market.rs that no other handler reads, after the
\* creation of the market with the given initial liquidity.
CreatedAccounts(initial_liquidity) ==
    /\ market_stats = NewMarketStats(initial_liquidity)
    /\ outcome_tokens = NewOutcomeTokens
    /\ market_resolution = NewMarketResolution
    /\ creator_token_account = 0 - initial_liquidity

\* The UserLiquidityPosition account of add_liquidity.rs for a provider for
\* whom none has been created; no handler creates one.
NoUserLiquidityPosition ==
    [ initialized |-> FALSE,
      lp_tokens |-> 0,
      outcome_a_contributed |-> 0,
      outcome_b_contributed |-> 0,
      last_update_time |-> 0 ]

\* The LiquidityPosition account of remove_liquidity.rs for a provider for
\* whom none has been created; no handler creates one.
NoLiquidityPosition ==
    [ initialized |-> FALSE,
      lp_tokens |-> 0,
      base_amount |-> 0,
      last_interaction |-> 0,
      is_active |-> FALSE ]

\* No arithmetic has been evaluated.
NoCalc == [ fn |-> "none", x |-> << >>, y |-> << >>, z |-> << >>, err |-> "Ok", out |-> << >> ]

\* The betting accounts of a new market whose Market account records
\* total_liquidity  as the liquidity of its pool.
BettingAccounts(total_liquidity) ==
    /\ program \in {"instructions", "lib"}
    /\ clock = 0
    /\ last = NoResult
    /\ \E e \in EndTimes, lo \in MinBetAmounts :
          /\ lib_market = initialize_market(e, lo)
          /\ IF program = "instructions"
             THEN \E r \in FeeRates, hi \in MaxBetAmounts,
                     cap \in PayoutCaps, pools \in CreatedOutcomePools :
                     market = [ NewMarket(e, e, r, lo, hi, cap, pools) EXCEPT
                                  !.total_liquidity = total_liquidity ]
             ELSE market = NewMarket(e, e, 0, lo, lo, 0, << >>)
    /\ instr_bet = [ u \in Bettors |-> EmptyInstrBet ]
    /\ vault = 0
    /\ position = [ u \in Bettors |-> NoPosition ]
    /\ claim_vault = 0
    /\ protocol_fee_account = 0
    /\ user_token_account = [ u \in Signers |-> 0 ]
    /\ bet = [ u \in Bettors |-> EmptyBet ]
    /\ market_vault = 0
    /\ bettor_token_account = [ u \in Signers |-> 0 ]

\* The betting accounts after the creation of the market.
BettingInit == BettingAccounts(0)

\* The liquidity accounts after the creation of the market: the creator's
\* initial liquidity is in the liquidity vault, no LP token exists and no
\* provider has a position account.
CreatedPool ==
    /\ liquidity_pool = NewLiquidityPool(InitialLiquidity)
    /\ user_liquidity_position = [ u \in Bettors |-> NoUserLiquidityPosition ]
    /\ liquidity_position = [ u \in Bettors |-> NoLiquidityPosition ]
    /\ lp_token_mint = 0
    /\ outcome_a_vault = 0
    /\ outcome_b_vault = 0
    /\ liquidity_vault = InitialLiquidity
    /\ pool_token_account = 0
    /\ provider_lp_token_account = [ u \in Bettors |-> 0 ]
    /\ provider_outcome_a_account = [ u \in Bettors |-> 0 ]
    /\ provider_outcome_b_account = [ u \in Bettors |-> 0 ]
    /\ provider_token_account = [ u \in Bettors |-> 0 ]
    /\ CreatedAccounts(InitialLiquidity)

\* The accounts of a new market.
CreatedInit ==
    /\ BettingInit
    /\ CreatedPool
    /\ calc = NoCalc

\* A failed instruction: no account changes, the error is reported.
Fail(res) ==
    /\ last' = res
    /\ UNCHANGED << program, liquidity_vars, calc, create_vars, clock, instr_vars, lib_vars >>

\* The clock advances.
Tick ==
    /\ clock < MaxTime
    /\ clock' = clock + 1
    /\ last' = Result("tick", "Ok", 0)
    /\ UNCHANGED << program, liquidity_vars, calc, create_vars, instr_vars, lib_vars >>

\* ------------------------------------------- instructions/place_bet.rs
\* PlaceBetCheck without the status and deadline constraints on the market.
PlaceBetCheck_NoMarketChecks(m, outcome, amount) ==
    IF m = Unallocated THEN "AccountNotInitialized"
    ELSE IF ~(outcome < Cardinality(DOMAIN m.outcomes)) THEN "InvalidOutcome"
    ELSE IF ~(amount > 0) THEN "InvalidBetAmount"
    ELSE IF ~(amount >= m.min_bet_amount) THEN "BetAmountTooLow"
    ELSE IF ~(amount <= m.max_bet_amount) THEN "BetAmountTooHigh"
    ELSE "Ok"

\* PlaceBetCheck without the deadline constraint on the market.
PlaceBetCheck_NoDeadline(m, outcome, amount) ==
    IF m = Unallocated THEN "AccountNotInitialized"
    ELSE IF m.status # "Active" THEN "MarketNotActive"
    ELSE IF ~(outcome < Cardinality(DOMAIN m.outcomes)) THEN "InvalidOutcome"
    ELSE IF ~(amount > 0) THEN "InvalidBetAmount"
    ELSE IF ~(amount >= m.min_bet_amount) THEN "BetAmountTooLow"
    ELSE IF ~(amount <= m.max_bet_amount) THEN "BetAmountTooHigh"
    ELSE "Ok"

\* The checks of place_bet in the order they are made: the account
\* constraints of PlaceBet, then the require! statements of the handler.
\* Returns "Ok" or the first error.
PlaceBetCheck(m, outcome, amount) ==
    IF m = Unallocated THEN "AccountNotInitialized"
    ELSE IF m.status # "Active" THEN "MarketNotActive"
    ELSE IF ~(clock < m.end_time) THEN "MarketExpired"
    ELSE IF ~(outcome < Cardinality(DOMAIN m.outcomes)) THEN "InvalidOutcome"
    ELSE IF ~(amount > 0) THEN "InvalidBetAmount"
    ELSE IF ~(amount >= m.min_bet_amount) THEN "BetAmountTooLow"
    ELSE IF ~(amount <= m.max_bet_amount) THEN "BetAmountTooHigh"
    ELSE "Ok"

\* Sum of the totals of all outcomes but  outcome  (place_bet.rs opposing_pool).
RECURSIVE SumTotals(_, _)
SumTotals(outs, ids) ==
    IF ids = {} THEN 0
    ELSE LET i == CHOOSE x \in ids : TRUE
         IN outs[i].total_amount + SumTotals(outs, ids \ {i})

OpposingPool(m, outcome) == SumTotals(m.outcomes, OutcomeIds \ {outcome})

\* PotentialPayout computed from the pool after the bet.
PotentialPayout_PoolAfterBet(amount, total_pool, opposing_pool) ==
    IF opposing_pool > 0
    THEN (amount * (total_pool + opposing_pool + amount)) \div opposing_pool
    ELSE amount * 2

\* place_bet.rs potential_payout; total_pool is the chosen outcome's total.
PotentialPayout(amount, total_pool, opposing_pool) ==
    IF opposing_pool > 0
    THEN (amount * (total_pool + opposing_pool)) \div opposing_pool
    ELSE amount * 2

\* place_bet.rs: the odds of each outcome after the bet.
CurrentOdds(total_market_pool, outcome_total) ==
    IF total_market_pool > outcome_total
    THEN IF outcome_total = 0 THEN U64Max   \* x / 0.0 is +infinity
         ELSE OddsBps(total_market_pool, outcome_total)
    ELSE DominantOdds

\* PlaceBet leaving the position's total_amount as it was.
PlaceBet_PositionTotalNotUpdated(bettor, outcome, amount) ==
    /\ program = "instructions"
    /\ LET m == market
           chk == PlaceBetCheck(m, outcome, amount)
           res(err) == Result("place_bet", err, 0)
       IN IF chk # "Ok" THEN Fail(res(chk))
          ELSE
          LET total_pool == m.outcomes[outcome].total_amount
              opposing_pool == OpposingPool(m, outcome)
              potential_payout == PotentialPayout(amount, total_pool, opposing_pool)
              b0 == instr_bet[bettor]
              b1 == IF b0.bettor = DefaultPubkey
                    THEN [ b0 EXCEPT !.bettor = bettor, !.created_at = clock ]
                    ELSE b0
              b2 == [ b1 EXCEPT
                        !.outcomes[outcome].amount = @ + amount,
                        !.outcomes[outcome].odds_at_bet =
                            IF opposing_pool > 0
                            THEN OddsBps(total_pool + opposing_pool, opposing_pool)
                            ELSE NoOpposingOdds,
                        !.last_bet_at = clock ]
              m1 == [ m EXCEPT
                        !.outcomes[outcome].total_amount = @ + amount,
                        !.outcomes[outcome].bet_count = @ + 1,
                        !.total_volume = @ + amount,
                        !.total_bets = @ + 1,
                        !.last_bet_time = clock ]
              total_market_pool == SumTotals(m1.outcomes, OutcomeIds)
              m2 == [ m1 EXCEPT
                        !.outcomes = [ i \in OutcomeIds |->
                            [ m1.outcomes[i] EXCEPT !.current_odds =
                                CurrentOdds(total_market_pool, m1.outcomes[i].total_amount) ] ] ]
          IN IF ~(potential_payout <= m.max_payout_per_bet)
             THEN Fail(res("PayoutTooHigh"))
             ELSE /\ instr_bet' = [ instr_bet EXCEPT ![bettor] = b2 ]
                  /\ market' = m2
                  /\ vault' = vault + amount
                  /\ user_token_account' =
                         [ user_token_account EXCEPT ![bettor] = @ - amount ]
                  /\ last' = res("Ok")
                  /\ UNCHANGED << program, liquidity_vars, calc, create_vars, clock, protocol_fee_account, claim_accounts, lib_vars >>

PlaceBet(bettor, outcome, amount) ==
    /\ program = "instructions"
    /\ LET m == market
           chk == PlaceBetCheck(m, outcome, amount)
           res(err) == Result("place_bet", err, 0)
       IN IF chk # "Ok" THEN Fail(res(chk))
          ELSE
          LET total_pool == m.outcomes[outcome].total_amount
              opposing_pool == OpposingPool(m, outcome)
              potential_payout == PotentialPayout(amount, total_pool, opposing_pool)
              b0 == instr_bet[bettor]
              b1 == IF b0.bettor = DefaultPubkey
                    THEN [ b0 EXCEPT !.bettor = bettor, !.created_at = clock ]
                    ELSE b0
              b2 == [ b1 EXCEPT
                        !.outcomes[outcome].amount = @ + amount,
                        !.outcomes[outcome].odds_at_bet =
                            IF opposing_pool > 0
                            THEN OddsBps(total_pool + opposing_pool, opposing_pool)
                            ELSE NoOpposingOdds,
                        !.total_amount = @ + amount,
                        !.last_bet_at = clock ]
              m1 == [ m EXCEPT
                        !.outcomes[outcome].total_amount = @ + amount,
                        !.outcomes[outcome].bet_count = @ + 1,
                        !.total_volume = @ + amount,
                        !.total_bets = @ + 1,
                        !.last_bet_time = clock ]
              total_market_pool == SumTotals(m1.outcomes, OutcomeIds)
              m2 == [ m1 EXCEPT
                        !.outcomes = [ i \in OutcomeIds |->
                            [ m1.outcomes[i] EXCEPT !.current_odds =
                                CurrentOdds(total_market_pool, m1.outcomes[i].total_amount) ] ] ]
          IN IF ~(potential_payout <= m.max_payout_per_bet)
             THEN Fail(res("PayoutTooHigh"))
             ELSE /\ instr_bet' = [ instr_bet EXCEPT ![bettor] = b2 ]
                  /\ market' = m2
                  /\ vault' = vault + amount
                  /\ user_token_account' =
                         [ user_token_account EXCEPT ![bettor] = @ - amount ]
                  /\ last' = res("Ok")
                  /\ UNCHANGED << program, liquidity_vars, calc, create_vars, clock, protocol_fee_account, claim_accounts, lib_vars >>

\* -------------------------------------- instructions/resolve_market.rs
\* Account constraints of ResolveMarket, then the handler's checks.
ResolveMarketCheck(m, signer, outcome, oracle_data_len) ==
    IF m = Unallocated THEN "AccountNotInitialized"
    ELSE IF m.status # "Active" THEN "MarketNotActive"
    ELSE IF ~(m.resolution_time <= clock) THEN "MarketNotExpired"
    ELSE IF signer # m.oracle THEN "InvalidOracle"
    ELSE IF ~(outcome < Cardinality(DOMAIN m.outcomes)) THEN "InvalidOutcome"
    ELSE IF oracle_data_len # 0 /\ ~(oracle_data_len <= MaxOracleData)
         THEN "OracleDataTooLarge"
    ELSE "Ok"

\* ProtocolFee rounded up instead of down.
ProtocolFee_RoundUp(total_pool, protocol_fee_rate) ==
    (total_pool * protocol_fee_rate + (BPS - 1)) \div BPS

\* protocol_fee = total_pool * protocol_fee_rate / 10000
ProtocolFee(total_pool, protocol_fee_rate) ==
    (total_pool * protocol_fee_rate) \div BPS

\* PayoutRatio giving 1.0x when nobody bet on the winning outcome.
PayoutRatio_NoWinnerFull(remaining_pool, winning_pool) ==
    IF winning_pool > 0 THEN (remaining_pool * BPS) \div winning_pool ELSE BPS

\* payout_ratio = remaining_pool * 10000 / winning_pool, or 0 without winners
PayoutRatio(remaining_pool, winning_pool) ==
    IF winning_pool > 0 THEN (remaining_pool * BPS) \div winning_pool ELSE 0

\* The handler of resolve_market.rs after its checks.  The fee and the
\* payout ratio are computed from market.total_pool and
\* market.outcome_pools[outcome]; the fee is transferred when it is positive,
\* indexing outcome_pools beyond its length panics, which fails the
\* transaction like an error, and the checked subtraction of a fee above the
\* pool (a fee rate above 10000) fails with MathOverflow.
ResolveMarket(signer, outcome, oracle_data_len) ==
    /\ program = "instructions"
    /\ LET m == market
           chk == ResolveMarketCheck(m, signer, outcome, oracle_data_len)
           res(err, paid) == Result("resolve", err, paid)
       IN IF chk # "Ok" THEN Fail(res(chk, 0))
          ELSE
          LET total_pool == m.total_pool
              protocol_fee == ProtocolFee(total_pool, m.protocol_fee_rate)
              remaining_pool == total_pool - protocol_fee
          IN IF protocol_fee > vault
             THEN Fail(res("InsufficientFunds", 0))
             ELSE IF ~(outcome + 1 <= Len(m.outcome_pools))
             THEN Fail(res("Panic", 0))
             ELSE IF protocol_fee > total_pool
             THEN Fail(res("MathOverflow", 0))
             ELSE /\ market' = [ m EXCEPT
                                   !.status = "Resolved",
                                   !.winning_outcome = outcome,
                                   !.resolution_timestamp = clock,
                                   !.oracle_data = oracle_data_len,
                                   !.payout_ratio =
                                       PayoutRatio(remaining_pool, m.outcome_pools[outcome + 1]) ]
                  /\ vault' = vault - protocol_fee
                  /\ protocol_fee_account' = protocol_fee_account + protocol_fee
                  /\ last' = res("Ok", protocol_fee)
                  /\ UNCHANGED << program, liquidity_vars, calc, create_vars, clock, instr_bet, claim_accounts, user_token_account, lib_vars >>

\* -------------------------------------- instructions/claim_winnings.rs
\* calculate_winnings deducting the platform fee twice.
calculate_winnings_FeeTwice(resolved_outcome, position_outcome, position_amount, yes_pool, no_pool, fee_rate) ==
    IF resolved_outcome = None THEN [ err |-> "MarketNotResolved", value |-> 0 ]
    ELSE IF position_outcome # resolved_outcome THEN [ err |-> "Ok", value |-> 0 ]
    ELSE
    LET total_winning_pool == IF resolved_outcome = Yes THEN yes_pool ELSE no_pool
        total_losing_pool == IF resolved_outcome = Yes THEN no_pool ELSE yes_pool
        total_pool == total_winning_pool + total_losing_pool
    IN IF total_winning_pool = 0 THEN [ err |-> "MathOverflow", value |-> 0 ]
       ELSE
       LET gross_winnings == (position_amount * total_pool) \div total_winning_pool
           platform_fee == 2 * ((gross_winnings * fee_rate) \div BPS)
       IN IF platform_fee > gross_winnings
          THEN [ err |-> "MathOverflow", value |-> 0 ]
          ELSE [ err |-> "Ok", value |-> gross_winnings - platform_fee ]

\* calculate_winnings: [err, value] for a position (outcome, amount).
calculate_winnings(resolved_outcome, position_outcome, position_amount, yes_pool, no_pool, fee_rate) ==
    IF resolved_outcome = None THEN [ err |-> "MarketNotResolved", value |-> 0 ]
    ELSE IF position_outcome # resolved_outcome THEN [ err |-> "Ok", value |-> 0 ]
    ELSE
    LET total_winning_pool == IF resolved_outcome = Yes THEN yes_pool ELSE no_pool
        total_losing_pool == IF resolved_outcome = Yes THEN no_pool ELSE yes_pool
        total_pool == total_winning_pool + total_losing_pool
    IN IF total_winning_pool = 0 THEN [ err |-> "MathOverflow", value |-> 0 ]
       ELSE
       LET gross_winnings == (position_amount * total_pool) \div total_winning_pool
           platform_fee == (gross_winnings * fee_rate) \div BPS
       IN IF platform_fee > gross_winnings
          THEN [ err |-> "MathOverflow", value |-> 0 ]
          ELSE [ err |-> "Ok", value |-> gross_winnings - platform_fee ]

\* ClaimWinningsCheck without the !position.claimed constraint.
ClaimWinningsCheck_NoClaimedFlag(m, p, user, owner) ==
    IF m = Unallocated \/ ~p.initialized THEN "AccountNotInitialized"
    ELSE IF m.status # "Resolved" THEN "MarketNotResolved"
    ELSE IF owner # user THEN "ConstraintSeeds"
    ELSE IF p.user # user THEN "InvalidPosition"
    ELSE "Ok"

\* Validation of the accounts of ClaimWinnings for a call signed by  user
\* that passes the Position account  p  of  owner.  All accounts are
\* deserialized first (a Position that was never created is refused),
\* then the constraints are checked account by account: the status of
\* the market; the seeds of the position, which contain user.key(), then
\* its constraints in the order they are written.
ClaimWinningsCheck(m, p, user, owner) ==
    IF m = Unallocated \/ ~p.initialized THEN "AccountNotInitialized"
    ELSE IF m.status # "Resolved" THEN "MarketNotResolved"
    ELSE IF owner # user THEN "ConstraintSeeds"
    ELSE IF p.user # user THEN "InvalidPosition"
    ELSE IF p.claimed THEN "AlreadyClaimed"
    ELSE "Ok"

\* claim_winnings.rs: the winnings are computed from the position and from
\* resolved_outcome, yes_pool, no_pool and fee_rate of the market, and are
\* paid from market_vault (seeds "market_vault").
ClaimWinnings(user, owner) ==
    /\ program = "instructions"
    /\ LET m == market
           p == position[owner]
           chk == ClaimWinningsCheck(m, p, user, owner)
           res(err, paid) == Result("claim", err, paid)
       IN IF chk # "Ok" THEN Fail(res(chk, 0))
          ELSE
          LET w == calculate_winnings(m.resolved_outcome, p.outcome, p.amount,
                                      m.yes_pool, m.no_pool, m.fee_rate)
              winnings == w.value
          IN IF w.err # "Ok" THEN Fail(res(w.err, 0))
             ELSE IF ~(winnings > 0) THEN Fail(res("NoWinnings", 0))
             ELSE IF winnings > claim_vault THEN Fail(res("InsufficientFunds", 0))
             ELSE /\ position' = [ position EXCEPT ![owner] =
                                     [ p EXCEPT !.claimed = TRUE, !.claimed_at = clock ] ]
                  /\ claim_vault' = claim_vault - winnings
                  /\ user_token_account' =
                         [ user_token_account EXCEPT ![user] = @ + winnings ]
                  /\ market' = [ m EXCEPT !.total_claimed = @ + winnings ]
                  /\ last' = res("Ok", winnings)
                  /\ UNCHANGED << program, liquidity_vars, calc, create_vars, clock, instr_bet, vault, protocol_fee_account, lib_vars >>

\* At most  MaxBets  bets are accepted per market.
InstructionsNext ==
    \/ \E u \in Bettors, o \in OutcomeInputs, a \in BetAmounts :
          /\ PlaceBet(u, o, a)
          /\ last'.err = "Ok" => market.total_bets < MaxBets
    \/ \E s \in Signers, o \in OutcomeInputs, n \in OracleDataLens : ResolveMarket(s, o, n)
    \/ \E u \in Signers, owner \in Bettors : ClaimWinnings(u, owner)

\* place_bet leaving total_volume as it was.
place_bet_VolumeNotUpdated(bettor, outcome, amount) ==
    /\ program = "lib"
    /\ LET m == lib_market
           res(err) == Result("place_bet", err, 0)
       IN IF m = Unallocated THEN Fail(res("AccountNotInitialized"))
          ELSE IF bet[bettor].bettor # DefaultPubkey THEN Fail(res("AccountAlreadyInUse"))
          ELSE IF m.status # "Active" THEN Fail(res("MarketNotActive"))
          ELSE IF ~(clock < m.resolution_time) THEN Fail(res("MarketExpired"))
          ELSE IF ~(amount >= m.min_bet_amount) THEN Fail(res("BetAmountTooLow"))
          ELSE /\ lib_market' = [ m EXCEPT
                    !.total_yes_amount = IF outcome THEN @ + amount ELSE @,
                    !.total_no_amount = IF outcome THEN @ ELSE @ + amount ]
               /\ bet' = [ bet EXCEPT ![bettor] =
                    [ bettor |-> bettor, outcome |-> outcome, amount |-> amount,
                      timestamp |-> clock, claimed |-> FALSE ] ]
               /\ market_vault' = market_vault + amount
               /\ bettor_token_account' =
                      [ bettor_token_account EXCEPT ![bettor] = @ - amount ]
               /\ last' = res("Ok")
               /\ UNCHANGED << program, liquidity_vars, calc, create_vars, clock, instr_vars >>

\* ---------------------------------------------------- lib.rs place_bet
\* The bet account is created by the instruction (init): a bettor holds at
\* most one bet per market.
place_bet(bettor, outcome, amount) ==
    /\ program = "lib"
    /\ LET m == lib_market
           res(err) == Result("place_bet", err, 0)
       IN IF m = Unallocated THEN Fail(res("AccountNotInitialized"))
          ELSE IF bet[bettor].bettor # DefaultPubkey THEN Fail(res("AccountAlreadyInUse"))
          ELSE IF m.status # "Active" THEN Fail(res("MarketNotActive"))
          ELSE IF ~(clock < m.resolution_time) THEN Fail(res("MarketExpired"))
          ELSE IF ~(amount >= m.min_bet_amount) THEN Fail(res("BetAmountTooLow"))
          ELSE /\ lib_market' = [ m EXCEPT
                    !.total_yes_amount = IF outcome THEN @ + amount ELSE @,
                    !.total_no_amount = IF outcome THEN @ ELSE @ + amount,
                    !.total_volume = @ + amount ]
               /\ bet' = [ bet EXCEPT ![bettor] =
                    [ bettor |-> bettor, outcome |-> outcome, amount |-> amount,
                      timestamp |-> clock, claimed |-> FALSE ] ]
               /\ market_vault' = market_vault + amount
               /\ bettor_token_account' =
                      [ bettor_token_account EXCEPT ![bettor] = @ - amount ]
               /\ last' = res("Ok")
               /\ UNCHANGED << program, liquidity_vars, calc, create_vars, clock, instr_vars >>

\* resolve_market without the Active requirement.
resolve_market_NoStatusCheck(signer, outcome) ==
    /\ program = "lib"
    /\ LET m == lib_market
           res(err) == Result("resolve", err, 0)
       IN IF m = Unallocated THEN Fail(res("AccountNotInitialized"))
          ELSE IF signer # m.oracle THEN Fail(res("UnauthorizedOracle"))
          ELSE IF ~(clock >= m.resolution_time) THEN Fail(res("MarketNotExpired"))
          ELSE /\ lib_market' = [ m EXCEPT
                    !.status = "Resolved",
                    !.resolved_outcome = IF outcome THEN Yes ELSE No,
                    !.resolution_timestamp = clock ]
               /\ last' = res("Ok")
               /\ UNCHANGED << program, liquidity_vars, calc, create_vars, clock, instr_vars, bet, market_vault,
                               bettor_token_account >>

\* ----------------------------------------------- lib.rs resolve_market
resolve_market(signer, outcome) ==
    /\ program = "lib"
    /\ LET m == lib_market
           res(err) == Result("resolve", err, 0)
       IN IF m = Unallocated THEN Fail(res("AccountNotInitialized"))
          ELSE IF m.status # "Active" THEN Fail(res("MarketNotActive"))
          ELSE IF signer # m.oracle THEN Fail(res("UnauthorizedOracle"))
          ELSE IF ~(clock >= m.resolution_time) THEN Fail(res("MarketNotExpired"))
          ELSE /\ lib_market' = [ m EXCEPT
                    !.status = "Resolved",
                    !.resolved_outcome = IF outcome THEN Yes ELSE No,
                    !.resolution_timestamp = clock ]
               /\ last' = res("Ok")
               /\ UNCHANGED << program, liquidity_vars, calc, create_vars, clock, instr_vars, bet, market_vault,
                               bettor_token_account >>

\* ----------------------------------------------- lib.rs claim_winnings
\* winnings = bet.amount * total_pool / total_winning_amount
lib_winnings(amount, total_yes_amount, total_no_amount, resolved_outcome) ==
    LET total_winning_amount ==
            IF resolved_outcome THEN total_yes_amount ELSE total_no_amount
        total_pool == total_yes_amount + total_no_amount
    IN (amount * total_pool) \div total_winning_amount

\* Validation of the accounts of ClaimWinnings and RefundBet for a call
\* signed by  signer  that passes the Bet account  b  of  owner : a market
\* or a bet that has not been created is refused, and so is a bet whose address
\* is not derived from the signer's key (seeds "bet", market, bettor).
BetAccountCheck(b, signer, owner) ==
    IF lib_market = Unallocated \/ b.bettor = DefaultPubkey THEN "AccountNotInitialized"
    ELSE IF owner # signer THEN "ConstraintSeeds"
    ELSE "Ok"

claim_winnings(signer, owner) ==
    /\ program = "lib"
    /\ LET m == lib_market
           b == bet[owner]
           chk == BetAccountCheck(b, signer, owner)
           res(err, paid) == Result("claim", err, paid)
       IN IF chk # "Ok" THEN Fail(res(chk, 0))
          ELSE IF m.status # "Resolved" THEN Fail(res("MarketNotResolved", 0))
          ELSE IF b.claimed THEN Fail(res("AlreadyClaimed", 0))
          ELSE IF b.bettor # signer THEN Fail(res("UnauthorizedClaimer", 0))
          ELSE IF m.resolved_outcome = None THEN Fail(res("MarketNotResolved", 0))
          ELSE IF b.outcome # (m.resolved_outcome = Yes) THEN Fail(res("LosingBet", 0))
          ELSE
          LET winnings == lib_winnings(b.amount, m.total_yes_amount,
                                       m.total_no_amount, m.resolved_outcome = Yes)
          IN IF winnings > market_vault THEN Fail(res("InsufficientFunds", 0))
             ELSE /\ market_vault' = market_vault - winnings
                  /\ bettor_token_account' =
                         [ bettor_token_account EXCEPT ![signer] = @ + winnings ]
                  /\ bet' = [ bet EXCEPT ![owner].claimed = TRUE ]
                  /\ last' = res("Ok", winnings)
                  /\ UNCHANGED << program, liquidity_vars, calc, create_vars, clock, instr_vars, lib_market >>

\* cancel_market without the Active requirement.
cancel_market_NoStatusCheck(authority) ==
    /\ program = "lib"
    /\ LET m == lib_market
           res(err) == Result("cancel", err, 0)
       IN IF m = Unallocated THEN Fail(res("AccountNotInitialized"))
          ELSE IF ~(authority = m.creator \/ authority = m.oracle)
               THEN Fail(res("UnauthorizedCancel"))
          ELSE IF ~(clock < m.resolution_time) THEN Fail(res("MarketExpired"))
          ELSE /\ lib_market' = [ m EXCEPT !.status = "Cancelled" ]
               /\ last' = res("Ok")
               /\ UNCHANGED << program, liquidity_vars, calc, create_vars, clock, instr_vars, bet, market_vault,
                               bettor_token_account >>

\* cancel_market without the deadline requirement.
cancel_market_NoDeadlineCheck(authority) ==
    /\ program = "lib"
    /\ LET m == lib_market
           res(err) == Result("cancel", err, 0)
       IN IF m = Unallocated THEN Fail(res("AccountNotInitialized"))
          ELSE IF m.status # "Active" THEN Fail(res("MarketNotActive"))
          ELSE IF ~(authority = m.creator \/ authority = m.oracle)
               THEN Fail(res("UnauthorizedCancel"))
          ELSE /\ lib_market' = [ m EXCEPT !.status = "Cancelled" ]
               /\ last' = res("Ok")
               /\ UNCHANGED << program, liquidity_vars, calc, create_vars, clock, instr_vars, bet, market_vault,
                               bettor_token_account >>

\* ------------------------------------------------ lib.rs cancel_market
cancel_market(authority) ==
    /\ program = "lib"
    /\ LET m == lib_market
           res(err) == Result("cancel", err, 0)
       IN IF m = Unallocated THEN Fail(res("AccountNotInitialized"))
          ELSE IF m.status # "Active" THEN Fail(res("MarketNotActive"))
          ELSE IF ~(authority = m.creator \/ authority = m.oracle)
               THEN Fail(res("UnauthorizedCancel"))
          ELSE IF ~(clock < m.resolution_time) THEN Fail(res("MarketExpired"))
          ELSE /\ lib_market' = [ m EXCEPT !.status = "Cancelled" ]
               /\ last' = res("Ok")
               /\ UNCHANGED << program, liquidity_vars, calc, create_vars, clock, instr_vars, bet, market_vault,
                               bettor_token_account >>

\* refund_bet without the check of the claimed flag.
refund_bet_NoClaimedCheck(signer, owner) ==
    /\ program = "lib"
    /\ LET m == lib_market
           b == bet[owner]
           chk == BetAccountCheck(b, signer, owner)
           res(err, paid) == Result("refund", err, paid)
       IN IF chk # "Ok" THEN Fail(res(chk, 0))
          ELSE IF m.status # "Cancelled" THEN Fail(res("MarketNotCancelled", 0))
          ELSE IF b.bettor # signer THEN Fail(res("UnauthorizedClaimer", 0))
          ELSE IF b.amount > market_vault THEN Fail(res("InsufficientFunds", 0))
          ELSE /\ market_vault' = market_vault - b.amount
               /\ bettor_token_account' =
                      [ bettor_token_account EXCEPT ![signer] = @ + b.amount ]
               /\ bet' = [ bet EXCEPT ![owner].claimed = TRUE ]
               /\ last' = res("Ok", b.amount)
               /\ UNCHANGED << program, liquidity_vars, calc, create_vars, clock, instr_vars, lib_market >>

\* --------------------------------------------------- lib.rs refund_bet
refund_bet(signer, owner) ==
    /\ program = "lib"
    /\ LET m == lib_market
           b == bet[owner]
           chk == BetAccountCheck(b, signer, owner)
           res(err, paid) == Result("refund", err, paid)
       IN IF chk # "Ok" THEN Fail(res(chk, 0))
          ELSE IF m.status # "Cancelled" THEN Fail(res("MarketNotCancelled", 0))
          ELSE IF b.claimed THEN Fail(res("AlreadyClaimed", 0))
          ELSE IF b.bettor # signer THEN Fail(res("UnauthorizedClaimer", 0))
          ELSE IF b.amount > market_vault THEN Fail(res("InsufficientFunds", 0))
          ELSE /\ market_vault' = market_vault - b.amount
               /\ bettor_token_account' =
                      [ bettor_token_account EXCEPT ![signer] = @ + b.amount ]
               /\ bet' = [ bet EXCEPT ![owner].claimed = TRUE ]
               /\ last' = res("Ok", b.amount)
               /\ UNCHANGED << program, liquidity_vars, calc, create_vars, clock, instr_vars, lib_market >>

LibNext ==
    \/ \E u \in Bettors, o \in BOOLEAN, a \in BetAmounts : place_bet(u, o, a)
    \/ \E s \in Signers, o \in BOOLEAN : resolve_market(s, o)
    \/ \E s \in Signers, owner \in Bettors : claim_winnings(s, owner)
    \/ \E s \in Signers : cancel_market(s)
    \/ \E s \in Signers, owner \in Bettors : refund_bet(s, owner)


\* ---------------------------------------------------------- SeededSpec
\* No handler of the instruction modules writes market.total_pool,
\* market.outcome_pools, market.resolved_outcome, market.yes_pool or
\* market.no_pool, creates a Position account or pays into the vault of
\* claim_winnings.rs.  To exercise resolve_market.rs and claim_winnings.rs
\* on other values than those of a new market, SeededSpec also starts from
\* accounts that hold values drawn from the sets below.  The seeded market
\* is past its deadlines (end_time = resolution_time = 0).
PositionOf(u, outcome, amount, claimed) ==
    [ initialized |-> TRUE, user |-> u, outcome |-> outcome, amount |-> amount,
      claimed |-> claimed, claimed_at |-> 0 ]

\* The seeded market of resolve_market.rs: Active, with a pool, at the fee
\* rates of a new market and at one above 10000, whose fee exceeds the pool.
SeededResolveMarkets ==
    { [ NewMarket(0, 0, r, 50, 1000, 2000, pools[2]) EXCEPT !.total_pool = pools[1] ] :
        r \in FeeRates \cup {20000}, pools \in SeededPools }

\* The seeded market of claim_winnings.rs.  A market that carries a
\* resolved outcome also carries it as winning_outcome, with the payout
\* ratio resolve_market.rs computes for these pools and this fee rate.
SeededClaimMarkets ==
    { [ NewMarket(0, 0, c[1], 50, 1000, c[4], << >>) EXCEPT
          !.status = st, !.resolved_outcome = ro, !.winning_outcome = ro,
          !.yes_pool = c[2], !.no_pool = c[3],
          !.payout_ratio =
              IF ro = None THEN 0
              ELSE PayoutRatio((c[2] + c[3]) - ProtocolFee(c[2] + c[3], c[1]), c[2]) ] :
        st \in {"Active", "Resolved"}, ro \in {None, Yes}, c \in SeededClaimCases }

\* The seeded Position accounts: none, or one of outcome, amount and
\* claimed flag as below, for each bettor.
SeededPositions ==
    { [ u \in Bettors |-> IF u = "alice" THEN pa ELSE pb ] :
        pa \in { NoPosition,
                 PositionOf("alice", Yes, 1000, FALSE),
                 PositionOf("alice", No, 1000, FALSE),
                 PositionOf("alice", Yes, 0, FALSE),
                 PositionOf("alice", Yes, 1000, TRUE),
                 PositionOf("alice", Yes, 50, FALSE) },
        pb \in { NoPosition,
                 PositionOf("bob", Yes, 1000, FALSE),
                 PositionOf("bob", No, 1000, FALSE),
                 PositionOf("bob", Yes, 50, FALSE) } }

SeededAccounts ==
    /\ program = "instructions"
    /\ clock = 0
    /\ last = NoResult
    /\ lib_market \in { initialize_market(e, lo) : e \in EndTimes, lo \in MinBetAmounts }
    /\ instr_bet = [ u \in Bettors |-> EmptyInstrBet ]
    /\ protocol_fee_account = 0
    /\ user_token_account = [ u \in Signers |-> 0 ]
    /\ bet = [ u \in Bettors |-> EmptyBet ]
    /\ market_vault = 0
    /\ bettor_token_account = [ u \in Signers |-> 0 ]
    /\ \/ /\ market \in SeededResolveMarkets
          /\ vault \in {0, 2000}
          /\ position = [ u \in Bettors |-> NoPosition ]
          /\ claim_vault = 0
       \/ /\ market \in SeededClaimMarkets
          /\ vault = 0
          /\ position \in SeededPositions
          /\ claim_vault \in {0, 99, 1960, 4000}
    /\ CreatedPool
    /\ calc = NoCalc


\* ------------------------------------------------------------ OddsSpec
\* One market of the instruction modules (fee rate 200 bps, payout cap
\* 2000) followed over up to  MaxOddsBets  valid bets, then resolved by the
\* oracle and claimed by the owners of the positions.
OddsInit ==
    /\ CreatedInit
    /\ program = "instructions"
    /\ market.protocol_fee_rate = 200
    /\ market.max_payout_per_bet = 2000
    /\ market.outcome_pools = ZeroPools

OddsNext ==
    \/ Tick
    \/ \E u \in Bettors, o \in OutcomeIds, a \in OddsAmounts :
          /\ PlaceBet(u, o, a)
          /\ last'.err = "Ok" => market.total_bets < MaxOddsBets
    \/ \E o \in OutcomeIds : ResolveMarket(Oracle, o, 0)
    \/ \E u \in Bettors : ClaimWinnings(u, u)

OddsSpec == OddsInit /\ [][OddsNext]_vars


\* ------------------------------------------- arithmetic of the handlers
\* The operands of ArithSpec as wide integers.
WideOperands == { Wide(n) : n \in WideOperandValues } \cup { WidePow2(k) : k \in WideOperandPowers }

\* The result of a checked computation: an error, or a value.
Checked(err, out) == [ err |-> err, out |-> out ]

\* u64 checked_mul: None when the product does not fit 64 bits.
U64CheckedMul(x, y) ==
    IF WideBitLength(WideMul(x, y)) > U64Bits
    THEN Checked("MathOverflow", << >>)
    ELSE Checked("Ok", WideMul(x, y))

\* add_liquidity.rs, first deposit: the u128 product converted to f64, its
\* square root cast to u64, raised to the minimum liquidity.
InitialLpWide(outcome_a_amount, outcome_b_amount) ==
    Only({ IF WideLess(lp_amount, Wide(MinimumLiquidity)) THEN Wide(MinimumLiquidity)
           ELSE lp_amount :
             lp_amount \in { F64SqrtAsU64(WideMul(outcome_a_amount, outcome_b_amount)) } })

\* add_liquidity.rs, later deposits: amount * supply / reserve in u128, the
\* quotient cast to u64 (the cast keeps the low 64 bits).  checked_div
\* returns None for a zero reserve.
LpFromWide(amount, total_lp_supply, reserve) ==
    IF reserve = << >> THEN Checked("MathOverflow", << >>)
    ELSE Checked("Ok", WideLowBits(WideDiv(WideMul(amount, total_lp_supply), reserve), U64Bits))

\* remove_liquidity.rs: pool_balance * lp / supply in u128, cast to u64.
WithdrawalAmountWide(pool_balance, lp_tokens_to_burn, total_lp_supply) ==
    IF total_lp_supply = << >> THEN Checked("MathOverflow", << >>)
    ELSE Checked("Ok", WideLowBits(WideDiv(WideMul(pool_balance, lp_tokens_to_burn), total_lp_supply), U64Bits))

\* place_bet.rs potential_payout on u64 operands, as the set of the results
\* the build can produce: checked_mul of the amount and the sum of the
\* pools, then checked_div by the opposing pool.  The sum is an unchecked
\* u64 addition: when it does not fit 64 bits the build decides, a panic
\* with overflow checks, the low 64 bits of the sum without them.
PotentialPayoutWide(amount, total_pool, opposing_pool) ==
    LET pools == WideAdd(total_pool, opposing_pool)
        PayoutOf(sum) ==
            LET product == U64CheckedMul(amount, sum)
            IN IF product.err # "Ok" THEN product
               ELSE Checked("Ok", WideDiv(product.out, opposing_pool))
    IN IF opposing_pool = << >> THEN { U64CheckedMul(amount, Wide(2)) }
       ELSE IF WideBitLength(pools) > U64Bits
       THEN { Checked("Panic", << >>), PayoutOf(WideLowBits(pools, U64Bits)) }
       ELSE { PayoutOf(pools) }

\* resolve_market.rs: the protocol fee total_pool * rate / 10000 and the
\* payout ratio (total_pool - fee) * 10000 / winning_pool, each product
\* formed with u64 checked_mul; the ratio is 0 without winners.
PayoutRatioWide(total_pool, protocol_fee_rate, winning_pool) ==
    LET product == U64CheckedMul(total_pool, protocol_fee_rate)
    IN IF product.err # "Ok" THEN product
       ELSE LET protocol_fee == WideDiv(product.out, Wide(BPS))
            IN IF WideLess(total_pool, protocol_fee) THEN Checked("MathOverflow", << >>)
               ELSE IF winning_pool = << >> THEN Checked("Ok", << >>)
               ELSE LET scaled == U64CheckedMul(WideSub(total_pool, protocol_fee), Wide(BPS))
                    IN IF scaled.err # "Ok" THEN scaled
                       ELSE Checked("Ok", WideDiv(scaled.out, winning_pool))

\* create_market.rs k_constant: an unchecked u64 multiplication.  When the
\* product does not fit 64 bits the build decides: a panic with overflow
\* checks, the low 64 bits without them.
KConstantWide(initial_liquidity) ==
    LET half == WideDiv(initial_liquidity, Wide(2))
    IN IF WideBitLength(WideMul(half, half)) > U64Bits
       THEN { Checked("Panic", << >>), Checked("Ok", WideLowBits(WideMul(half, half), U64Bits)) }
       ELSE { Checked("Ok", WideMul(half, half)) }

\* ------------------------------------------- instructions/add_liquidity.rs
Min(a, b) == IF a < b THEN a ELSE b

\* lp_from_a and lp_from_b for operands whose product fits the integers of
\* the model, where the u128 product and the cast to u64 are exact.
LpFrom(amount, total_lp_supply, reserve) == (amount * total_lp_supply) \div reserve

\* lp_tokens_to_mint taking the larger of the two ratios.
LpTokensToMint_Max(outcome_a_amount, outcome_b_amount, total_lp_supply, outcome_a_reserve, outcome_b_reserve) ==
    IF total_lp_supply = 0
    THEN Narrow(InitialLpWide(Wide(outcome_a_amount), Wide(outcome_b_amount)))
    ELSE LET lp_from_a == LpFrom(outcome_a_amount, total_lp_supply, outcome_a_reserve)
             lp_from_b == LpFrom(outcome_b_amount, total_lp_supply, outcome_b_reserve)
         IN IF lp_from_a < lp_from_b THEN lp_from_b ELSE lp_from_a

\* lp_tokens_to_mint for positive reserves.
LpTokensToMint(outcome_a_amount, outcome_b_amount, total_lp_supply, outcome_a_reserve, outcome_b_reserve) ==
    IF total_lp_supply = 0
    THEN Narrow(InitialLpWide(Wide(outcome_a_amount), Wide(outcome_b_amount)))
    ELSE LET lp_from_a == LpFrom(outcome_a_amount, total_lp_supply, outcome_a_reserve)
             lp_from_b == LpFrom(outcome_b_amount, total_lp_supply, outcome_b_reserve)
         IN Min(lp_from_a, lp_from_b)

\* The checks of add_liquidity in the order of the code: the position
\* account of the provider is loaded, then the account constraint on the
\* market status, the amounts, the deadline, the division by the reserves,
\* the slippage limit.  "Ok" means the deposit is taken.
AddLiquidityCheck_NoSlippageCheck(m, pos, now, outcome_a_amount, outcome_b_amount, min_lp_tokens) ==
    IF m = Unallocated \/ ~pos.initialized THEN "AccountNotInitialized"
    ELSE IF m.status # "Active" THEN "MarketNotActive"
    ELSE IF ~(outcome_a_amount > 0) THEN "InvalidAmount"
    ELSE IF ~(outcome_b_amount > 0) THEN "InvalidAmount"
    ELSE IF ~(now < m.resolution_time) THEN "MarketExpired"
    ELSE IF lp_token_mint # 0 /\ (outcome_a_vault = 0 \/ outcome_b_vault = 0) THEN "MathOverflow"
    ELSE "Ok"

AddLiquidityCheck(m, pos, now, outcome_a_amount, outcome_b_amount, min_lp_tokens) ==
    IF m = Unallocated \/ ~pos.initialized THEN "AccountNotInitialized"
    ELSE IF m.status # "Active" THEN "MarketNotActive"
    ELSE IF ~(outcome_a_amount > 0) THEN "InvalidAmount"
    ELSE IF ~(outcome_b_amount > 0) THEN "InvalidAmount"
    ELSE IF ~(now < m.resolution_time) THEN "MarketExpired"
    ELSE IF lp_token_mint # 0 /\ (outcome_a_vault = 0 \/ outcome_b_vault = 0) THEN "MathOverflow"
    ELSE IF ~(LpTokensToMint(outcome_a_amount, outcome_b_amount, lp_token_mint, outcome_a_vault, outcome_b_vault) >= min_lp_tokens)
         THEN "SlippageExceeded"
    ELSE "Ok"

\* The pool account after a deposit, with reserve B overwritten.
PoolAfterAdd_ReserveOverwritten(pool, outcome_a_amount, outcome_b_amount, lp_tokens_to_mint, now) ==
    [ pool EXCEPT !.total_liquidity = @ + lp_tokens_to_mint,
                  !.outcome_a_reserve = @ + outcome_a_amount,
                  !.outcome_b_reserve = outcome_b_amount,
                  !.last_update_time = now ]

\* The pool account after a deposit.
PoolAfterAdd(pool, outcome_a_amount, outcome_b_amount, lp_tokens_to_mint, now) ==
    [ pool EXCEPT !.total_liquidity = @ + lp_tokens_to_mint,
                  !.outcome_a_reserve = @ + outcome_a_amount,
                  !.outcome_b_reserve = @ + outcome_b_amount,
                  !.last_update_time = now ]

\* add_liquidity taking from the provider, on both sides, only the smaller
\* of the two amounts.
add_liquidity_ExcessNotTaken(liquidity_provider, outcome_a_amount, outcome_b_amount, min_lp_tokens) ==
    /\ program = "instructions"
    /\ LET used == Min(outcome_a_amount, outcome_b_amount)
           err == AddLiquidityCheck(market, user_liquidity_position[liquidity_provider], clock,
                                    outcome_a_amount, outcome_b_amount, min_lp_tokens)
           lp_tokens_to_mint == LpTokensToMint(outcome_a_amount, outcome_b_amount, lp_token_mint, outcome_a_vault, outcome_b_vault)
       IN IF err # "Ok" THEN Fail(Result("add_liquidity", err, 0))
          ELSE /\ provider_outcome_a_account' =
                      [ provider_outcome_a_account EXCEPT ![liquidity_provider] = @ - used ]
               /\ outcome_a_vault' = outcome_a_vault + used
               /\ provider_outcome_b_account' =
                      [ provider_outcome_b_account EXCEPT ![liquidity_provider] = @ - used ]
               /\ outcome_b_vault' = outcome_b_vault + used
               /\ lp_token_mint' = lp_token_mint + lp_tokens_to_mint
               /\ provider_lp_token_account' =
                      [ provider_lp_token_account EXCEPT ![liquidity_provider] = @ + lp_tokens_to_mint ]
               /\ user_liquidity_position' =
                      [ user_liquidity_position EXCEPT
                          ![liquidity_provider].lp_tokens = @ + lp_tokens_to_mint,
                          ![liquidity_provider].outcome_a_contributed = @ + outcome_a_amount,
                          ![liquidity_provider].outcome_b_contributed = @ + outcome_b_amount,
                          ![liquidity_provider].last_update_time = clock ]
               /\ liquidity_pool' = PoolAfterAdd(liquidity_pool, outcome_a_amount, outcome_b_amount, lp_tokens_to_mint, clock)
               /\ market' = [ market EXCEPT !.total_liquidity = @ + outcome_a_amount + outcome_b_amount ]
               /\ last' = Result("add_liquidity", "Ok", lp_tokens_to_mint)
               /\ UNCHANGED << program, clock, calc, create_vars, instr_bet, claim_accounts, vault, protocol_fee_account,
                               user_token_account, lib_vars, liquidity_position, liquidity_vault,
                               pool_token_account, provider_token_account >>

\* add_liquidity: both amounts go to the vaults, the LP tokens are minted
\* to the provider, then the provider's UserLiquidityPosition, the pool and
\* the market are updated.
add_liquidity(liquidity_provider, outcome_a_amount, outcome_b_amount, min_lp_tokens) ==
    /\ program = "instructions"
    /\ LET err == AddLiquidityCheck(market, user_liquidity_position[liquidity_provider], clock,
                                    outcome_a_amount, outcome_b_amount, min_lp_tokens)
           lp_tokens_to_mint == LpTokensToMint(outcome_a_amount, outcome_b_amount, lp_token_mint, outcome_a_vault, outcome_b_vault)
       IN IF err # "Ok" THEN Fail(Result("add_liquidity", err, 0))
          ELSE /\ provider_outcome_a_account' =
                      [ provider_outcome_a_account EXCEPT ![liquidity_provider] = @ - outcome_a_amount ]
               /\ outcome_a_vault' = outcome_a_vault + outcome_a_amount
               /\ provider_outcome_b_account' =
                      [ provider_outcome_b_account EXCEPT ![liquidity_provider] = @ - outcome_b_amount ]
               /\ outcome_b_vault' = outcome_b_vault + outcome_b_amount
               /\ lp_token_mint' = lp_token_mint + lp_tokens_to_mint
               /\ provider_lp_token_account' =
                      [ provider_lp_token_account EXCEPT ![liquidity_provider] = @ + lp_tokens_to_mint ]
               /\ user_liquidity_position' =
                      [ user_liquidity_position EXCEPT
                          ![liquidity_provider].lp_tokens = @ + lp_tokens_to_mint,
                          ![liquidity_provider].outcome_a_contributed = @ + outcome_a_amount,
                          ![liquidity_provider].outcome_b_contributed = @ + outcome_b_amount,
                          ![liquidity_provider].last_update_time = clock ]
               /\ liquidity_pool' = PoolAfterAdd(liquidity_pool, outcome_a_amount, outcome_b_amount, lp_tokens_to_mint, clock)
               /\ market' = [ market EXCEPT !.total_liquidity = @ + outcome_a_amount + outcome_b_amount ]
               /\ last' = Result("add_liquidity", "Ok", lp_tokens_to_mint)
               /\ UNCHANGED << program, clock, calc, create_vars, instr_bet, claim_accounts, vault, protocol_fee_account,
                               user_token_account, lib_vars, liquidity_position, liquidity_vault,
                               pool_token_account, provider_token_account >>

\* ---------------------------------------- instructions/remove_liquidity.rs
\* withdrawal_amount for a pool with LP tokens, for operands whose product
\* fits the integers of the model.
WithdrawalAmount(pool_balance, lp_tokens_to_burn, total_lp_supply) ==
    (pool_balance * lp_tokens_to_burn) \div total_lp_supply

\* The withdrawal fee charged whatever the status of the market.
WithdrawalFee_AlwaysCharged(status, withdrawal_amount, withdrawal_fee_bps) ==
    (withdrawal_amount * withdrawal_fee_bps) \div BPS

\* fee_amount: charged on an Active market only.
WithdrawalFee(status, withdrawal_amount, withdrawal_fee_bps) ==
    IF status = "Active"
    THEN (withdrawal_amount * withdrawal_fee_bps) \div BPS
    ELSE 0

\* RemoveLiquidityCheck accepting a Cancelled market.
RemoveLiquidityCheck_AllowsCancelled(m, pos, pool, pool_balance, lp_balance, authority, lp_tokens_to_burn) ==
    IF m = Unallocated \/ pool = Unallocated \/ ~pos.initialized THEN "AccountNotInitialized"
    ELSE IF authority # m.authority THEN "ConstraintHasOne"
    ELSE IF ~(m.status \in {"Active", "Resolved", "Cancelled"}) THEN "MarketNotActive"
    ELSE IF ~(lp_tokens_to_burn > 0) THEN "InvalidAmount"
    ELSE IF ~(lp_tokens_to_burn <= pos.lp_tokens) THEN "InsufficientLpTokens"
    ELSE IF ~(pool.total_lp_tokens > 0) THEN "EmptyPool"
    ELSE LET withdrawal_amount == WithdrawalAmount(pool_balance, lp_tokens_to_burn, pool.total_lp_tokens)
         IN IF ~(withdrawal_amount > 0) THEN "InvalidAmount"
            ELSE IF ~(withdrawal_amount <= pool_balance) THEN "InsufficientPoolBalance"
            ELSE IF WithdrawalFee(m.status, withdrawal_amount, pool.withdrawal_fee_bps) > withdrawal_amount
                 THEN "MathOverflow"
            ELSE IF lp_balance < lp_tokens_to_burn THEN "InsufficientFunds"
            ELSE IF pos.base_amount < withdrawal_amount THEN "MathOverflow"
            ELSE IF pool.total_liquidity < withdrawal_amount THEN "MathOverflow"
            ELSE IF pool.total_lp_tokens < lp_tokens_to_burn THEN "MathOverflow"
            ELSE IF m.total_liquidity < withdrawal_amount THEN "MathOverflow"
            ELSE IF pos.lp_tokens = lp_tokens_to_burn /\ pool.active_providers = 0 THEN "MathOverflow"
            ELSE "Ok"

\* The checks of remove_liquidity in the order of the code: the position
\* account of the provider is loaded, then the has_one constraint on the
\* market authority, the requirements of the handler, the checked
\* subtraction of the fee from the withdrawal (a fee above 10000 bps exceeds
\* it), the burn of the provider's LP tokens, and the checked subtractions
\* of the account updates.  "Ok" means the withdrawal is made.
RemoveLiquidityCheck(m, pos, pool, pool_balance, lp_balance, authority, lp_tokens_to_burn) ==
    IF m = Unallocated \/ pool = Unallocated \/ ~pos.initialized THEN "AccountNotInitialized"
    ELSE IF authority # m.authority THEN "ConstraintHasOne"
    ELSE IF ~(m.status = "Active" \/ m.status = "Resolved") THEN "MarketNotActive"
    ELSE IF ~(lp_tokens_to_burn > 0) THEN "InvalidAmount"
    ELSE IF ~(lp_tokens_to_burn <= pos.lp_tokens) THEN "InsufficientLpTokens"
    ELSE IF ~(pool.total_lp_tokens > 0) THEN "EmptyPool"
    ELSE LET withdrawal_amount == WithdrawalAmount(pool_balance, lp_tokens_to_burn, pool.total_lp_tokens)
         IN IF ~(withdrawal_amount > 0) THEN "InvalidAmount"
            ELSE IF ~(withdrawal_amount <= pool_balance) THEN "InsufficientPoolBalance"
            ELSE IF WithdrawalFee(m.status, withdrawal_amount, pool.withdrawal_fee_bps) > withdrawal_amount
                 THEN "MathOverflow"
            ELSE IF lp_balance < lp_tokens_to_burn THEN "InsufficientFunds"
            ELSE IF pos.base_amount < withdrawal_amount THEN "MathOverflow"
            ELSE IF pool.total_liquidity < withdrawal_amount THEN "MathOverflow"
            ELSE IF pool.total_lp_tokens < lp_tokens_to_burn THEN "MathOverflow"
            ELSE IF m.total_liquidity < withdrawal_amount THEN "MathOverflow"
            ELSE IF pos.lp_tokens = lp_tokens_to_burn /\ pool.active_providers = 0 THEN "MathOverflow"
            ELSE "Ok"

\* remove_liquidity: the net withdrawal is paid from the pool's token
\* account, the LP tokens are burnt, then the provider's LiquidityPosition,
\* the pool and the market are updated; a position left without LP tokens
\* is closed.
remove_liquidity(liquidity_provider, authority, lp_tokens_to_burn) ==
    /\ program = "instructions"
    /\ LET pos == liquidity_position[liquidity_provider]
           err == RemoveLiquidityCheck(market, pos, liquidity_pool, pool_token_account,
                                       provider_lp_token_account[liquidity_provider],
                                       authority, lp_tokens_to_burn)
           withdrawal_amount == WithdrawalAmount(pool_token_account, lp_tokens_to_burn, liquidity_pool.total_lp_tokens)
           fee_amount == WithdrawalFee(market.status, withdrawal_amount, liquidity_pool.withdrawal_fee_bps)
           net_withdrawal == withdrawal_amount - fee_amount
           closed == pos.lp_tokens - lp_tokens_to_burn = 0
       IN IF err # "Ok" THEN Fail(Result("remove_liquidity", err, 0))
          ELSE /\ pool_token_account' = pool_token_account - net_withdrawal
               /\ provider_token_account' =
                      [ provider_token_account EXCEPT ![liquidity_provider] = @ + net_withdrawal ]
               /\ lp_token_mint' = lp_token_mint - lp_tokens_to_burn
               /\ provider_lp_token_account' =
                      [ provider_lp_token_account EXCEPT ![liquidity_provider] = @ - lp_tokens_to_burn ]
               /\ liquidity_position' =
                      [ liquidity_position EXCEPT
                          ![liquidity_provider].lp_tokens = @ - lp_tokens_to_burn,
                          ![liquidity_provider].base_amount = @ - withdrawal_amount,
                          ![liquidity_provider].last_interaction = clock,
                          ![liquidity_provider].is_active = IF closed THEN FALSE ELSE @ ]
               /\ liquidity_pool' =
                      [ liquidity_pool EXCEPT
                          !.total_liquidity = @ - withdrawal_amount,
                          !.total_lp_tokens = @ - lp_tokens_to_burn,
                          !.total_fees_collected = @ + fee_amount,
                          !.active_providers = IF closed THEN @ - 1 ELSE @ ]
               /\ market' = [ market EXCEPT !.total_liquidity = @ - withdrawal_amount ]
               /\ last' = Result("remove_liquidity", "Ok", net_withdrawal)
               /\ UNCHANGED << program, clock, calc, create_vars, instr_bet, claim_accounts, vault, protocol_fee_account,
                               user_token_account, lib_vars, user_liquidity_position, liquidity_vault,
                               outcome_a_vault, outcome_b_vault,
                               provider_outcome_a_account, provider_outcome_b_account >>

\* ------------------------------------------------------- LiquiditySpec
\* The Market account as create_market.rs leaves it: Active, with its
\* end_time.  The handler writes none of resolution_time, authority, oracle,
\* the outcomes, the bet limits, the fee rate and the pools, which stay zero
\* (the default key, the empty vector).
MarketAfterCreate(end_time) ==
    [ NewMarket(end_time, 0, 0, 0, 0, 0, << >>) EXCEPT
        !.authority = DefaultPubkey,
        !.oracle = DefaultPubkey,
        !.outcomes = << >> ]

\* No instruction of the repository creates the position accounts of a
\* provider or writes market.resolution_time, market.authority or
\* market.oracle.  To exercise add_liquidity.rs and remove_liquidity.rs,
\* LiquiditySpec also starts from a market whose resolution_time is its
\* end_time, whose authority is the creator and whose oracle is set, with
\* both position accounts of every provider allocated and zero; the pool
\* and the token accounts are those of the creation.
\* The liquidity accounts of the creation with both position accounts of
\* every provider allocated and zero.
SeededProviders ==
    /\ liquidity_pool = NewLiquidityPool(InitialLiquidity)
    /\ user_liquidity_position =
           [ u \in Bettors |-> [ NoUserLiquidityPosition EXCEPT !.initialized = TRUE ] ]
    /\ liquidity_position =
           [ u \in Bettors |-> [ NoLiquidityPosition EXCEPT !.initialized = TRUE ] ]
    /\ lp_token_mint = 0
    /\ outcome_a_vault = 0
    /\ outcome_b_vault = 0
    /\ liquidity_vault = InitialLiquidity
    /\ pool_token_account = 0
    /\ provider_lp_token_account = [ u \in Bettors |-> 0 ]
    /\ provider_outcome_a_account = [ u \in Bettors |-> 0 ]
    /\ provider_outcome_b_account = [ u \in Bettors |-> 0 ]
    /\ provider_token_account = [ u \in Bettors |-> 0 ]
    /\ CreatedAccounts(InitialLiquidity)

SeededLiquidity ==
    /\ market \in { NewMarket(e, e, 200, lo, hi, 2000, ZeroPools) :
                      e \in EndTimes, lo \in MinBetAmounts, hi \in MaxBetAmounts }
    /\ SeededProviders

\* The liquidity pool of one market of the instruction modules: deposits
\* and withdrawals by the providers, the clock, and the resolution by the
\* oracle, from the accounts create_market.rs leaves and from the seeded
\* ones.  No deposit takes a vault beyond  MaxReserve.
LiquidityInit ==
    /\ program = "instructions"
    /\ clock = 0
    /\ last = NoResult
    /\ lib_market \in { initialize_market(e, lo) : e \in EndTimes, lo \in MinBetAmounts }
    /\ instr_bet = [ u \in Bettors |-> EmptyInstrBet ]
    /\ vault = 0
    /\ position = [ u \in Bettors |-> NoPosition ]
    /\ claim_vault = 0
    /\ protocol_fee_account = 0
    /\ user_token_account = [ u \in Signers |-> 0 ]
    /\ bet = [ u \in Bettors |-> EmptyBet ]
    /\ market_vault = 0
    /\ bettor_token_account = [ u \in Signers |-> 0 ]
    /\ calc = NoCalc
    /\ \/ /\ market \in { MarketAfterCreate(e) : e \in EndTimes }
          /\ CreatedPool
       \/ SeededLiquidity

LiquidityNext ==
    \/ Tick
    \/ \E u \in Bettors, a \in LiquidityAmounts, b \in LiquidityAmounts, lo \in MinLpTokens :
          /\ add_liquidity(u, a, b, lo)
          /\ last'.err = "Ok" => outcome_a_vault' <= MaxReserve /\ outcome_b_vault' <= MaxReserve
    \/ \E u \in Bettors, s \in Signers, lp \in LpBurnAmounts : remove_liquidity(u, s, lp)
    \/ \E o \in OutcomeIds : ResolveMarket(Oracle, o, 0)

LiquiditySpec == LiquidityInit /\ [][LiquidityNext]_vars

\* ------------------------------------------------------------ PoolSpec
\* remove_liquidity and add_liquidity as functions of the accounts they are
\* given.  No instruction of the repository opens a liquidity position with
\* a base amount, counts the active providers, records the LP tokens of the
\* pool or funds its token account, so the accounts are drawn from pools in
\* which these fields agree: each provider holds  shares[u]  LP tokens, in
\* both position accounts, for a base amount of half of them, the pool's
\* token account holds the base amounts plus a surplus, and the pool records
\* the sum of the LP tokens, or, when  recorded  is FALSE, the zero that
\* create_market.rs leaves in total_lp_tokens.
SeededBase(lp_tokens) == lp_tokens \div 2

SeededBalance(shares, surplus) ==
    SeededBase(shares["alice"]) + SeededBase(shares["bob"]) + surplus

SeededPool(shares, withdrawal_fee_bps, surplus, recorded) ==
    LET total == shares["alice"] + shares["bob"]
    IN /\ liquidity_pool =
              [ NewLiquidityPool(InitialLiquidity) EXCEPT
                  !.total_liquidity = SeededBalance(shares, surplus),
                  !.outcome_a_reserve = total,
                  !.outcome_b_reserve = total,
                  !.total_lp_tokens = IF recorded THEN total ELSE 0,
                  !.active_providers = Cardinality({ u \in Bettors : shares[u] > 0 }),
                  !.withdrawal_fee_bps = withdrawal_fee_bps ]
       /\ user_liquidity_position =
              [ u \in Bettors |->
                  [ NoUserLiquidityPosition EXCEPT
                      !.initialized = TRUE,
                      !.lp_tokens = shares[u],
                      !.outcome_a_contributed = shares[u],
                      !.outcome_b_contributed = shares[u] ] ]
       /\ liquidity_position =
              [ u \in Bettors |->
                  [ NoLiquidityPosition EXCEPT
                      !.initialized = TRUE,
                      !.lp_tokens = shares[u],
                      !.base_amount = SeededBase(shares[u]),
                      !.is_active = shares[u] > 0 ] ]
       /\ lp_token_mint = total
       /\ outcome_a_vault = total
       /\ outcome_b_vault = total
       /\ liquidity_vault = InitialLiquidity
       /\ pool_token_account = SeededBalance(shares, surplus)
       /\ provider_lp_token_account = shares
       /\ provider_outcome_a_account = [ u \in Bettors |-> 0 ]
       /\ provider_outcome_b_account = [ u \in Bettors |-> 0 ]
       /\ provider_token_account = [ u \in Bettors |-> 0 ]

\* One provider, the creator, with LP tokens.
SeededProviderShares == [ u \in Bettors |-> IF u = Creator THEN 1000 ELSE 0 ]

PoolInit ==
    /\ program = "instructions"
    /\ clock = 0
    /\ last = NoResult
    /\ lib_market \in { initialize_market(e, lo) : e \in EndTimes, lo \in MinBetAmounts }
    /\ instr_bet = [ u \in Bettors |-> EmptyInstrBet ]
    /\ vault = 0
    /\ position = [ u \in Bettors |-> NoPosition ]
    /\ claim_vault = 0
    /\ protocol_fee_account = 0
    /\ user_token_account = [ u \in Signers |-> 0 ]
    /\ bet = [ u \in Bettors |-> EmptyBet ]
    /\ market_vault = 0
    /\ bettor_token_account = [ u \in Signers |-> 0 ]
    /\ \E shares \in SeededShares, fee \in WithdrawalFees, surplus \in SeededSurplus,
          status \in SeededStatuses, recorded \in BOOLEAN :
          /\ SeededPool(shares, fee, surplus, recorded)
          /\ market \in { [ NewMarket(e, e, 100, lo, hi, 2000, ZeroPools) EXCEPT
                              !.status = status,
                              !.total_liquidity = SeededBalance(shares, surplus) ] :
                            e \in EndTimes, lo \in MinBetAmounts, hi \in MaxBetAmounts }
    /\ CreatedAccounts(InitialLiquidity)
    /\ calc = NoCalc

PoolSpec == PoolInit /\ [][LiquidityNext]_vars

\* ----------------------------------------------------------- ArithSpec
\* The arithmetic of the handlers applied to operands of the full u64
\* range: each behaviour draws three operands and applies one computation.
ArithInit ==
    /\ BettingInit
    /\ program = "instructions"
    /\ market.protocol_fee_rate = 200
    /\ market.max_payout_per_bet = 2000
    /\ market.outcome_pools = ZeroPools
    /\ CreatedPool
    /\ calc \in { [ NoCalc EXCEPT !.x = x, !.y = y, !.z = z ] :
                    x \in WideOperands, y \in WideOperands, z \in WideOperands }

\* The record of the computation  fn  and its result.
Calculated(fn, result) == [ calc EXCEPT !.fn = fn, !.err = result.err, !.out = result.out ]

\* add_liquidity(x, y) on a pool without LP tokens.
CalcInitialLp ==
    /\ calc.fn = "none"
    /\ calc' = Calculated("initial_lp", Checked("Ok", InitialLpWide(calc.x, calc.y)))
    /\ UNCHANGED << program, clock, last, instr_vars, lib_vars, liquidity_vars, create_vars >>

\* add_liquidity: the LP tokens for the amount x at supply y and reserve z.
CalcLpFrom ==
    /\ calc.fn = "none"
    /\ calc' = Calculated("lp_from", LpFromWide(calc.x, calc.y, calc.z))
    /\ UNCHANGED << program, clock, last, instr_vars, lib_vars, liquidity_vars, create_vars >>

\* remove_liquidity: the withdrawal of y LP tokens of z from the balance x.
CalcWithdrawalAmount ==
    /\ calc.fn = "none"
    /\ calc' = Calculated("withdrawal_amount", WithdrawalAmountWide(calc.x, calc.y, calc.z))
    /\ UNCHANGED << program, clock, last, instr_vars, lib_vars, liquidity_vars, create_vars >>

\* place_bet: the potential payout of the amount x on a pool of y against z.
CalcPotentialPayout ==
    /\ calc.fn = "none"
    /\ \E result \in PotentialPayoutWide(calc.x, calc.y, calc.z) :
          calc' = Calculated("potential_payout", result)
    /\ UNCHANGED << program, clock, last, instr_vars, lib_vars, liquidity_vars, create_vars >>

\* create_market: the k constant of the initial liquidity x.
CalcKConstant ==
    /\ calc.fn = "none"
    /\ \E result \in KConstantWide(calc.x) : calc' = Calculated("k_constant", result)
    /\ UNCHANGED << program, clock, last, instr_vars, lib_vars, liquidity_vars, create_vars >>

\* resolve: the payout ratio of a pool of x at the fee rate y, with z on
\* the winning outcome.
CalcPayoutRatio ==
    /\ calc.fn = "none"
    /\ calc' = Calculated("payout_ratio", PayoutRatioWide(calc.x, calc.y, calc.z))
    /\ UNCHANGED << program, clock, last, instr_vars, lib_vars, liquidity_vars, create_vars >>

ArithNext ==
    \/ CalcInitialLp
    \/ CalcLpFrom
    \/ CalcWithdrawalAmount
    \/ CalcPotentialPayout
    \/ CalcKConstant
    \/ CalcPayoutRatio

ArithSpec == ArithInit /\ [][ArithNext]_vars

\* ----------------------------------------------------------- OrderSpec
\* claim_winnings.rs as its statements run, without the rollback of a
\* failed transaction: the accounts hold what the handler has written when
\* it returns.  The claimed flag and its time are written before the
\* transfer from the vault, which fails when the vault holds less than the
\* winnings; total_claimed is written after it.
ClaimWinningsInOrder(user, owner) ==
    /\ program = "instructions"
    /\ LET m == market
           p == position[owner]
           chk == ClaimWinningsCheck(m, p, user, owner)
           res(err, paid) == Result("claim", err, paid)
       IN IF chk # "Ok" THEN Fail(res(chk, 0))
          ELSE
          LET w == calculate_winnings(m.resolved_outcome, p.outcome, p.amount,
                                      m.yes_pool, m.no_pool, m.fee_rate)
              winnings == w.value
          IN IF w.err # "Ok" THEN Fail(res(w.err, 0))
             ELSE IF ~(winnings > 0) THEN Fail(res("NoWinnings", 0))
             ELSE /\ position' = [ position EXCEPT ![owner] =
                                     [ p EXCEPT !.claimed = TRUE, !.claimed_at = clock ] ]
                  /\ IF winnings > claim_vault
                     THEN /\ last' = res("InsufficientFunds", 0)
                          /\ UNCHANGED << claim_vault, user_token_account, market >>
                     ELSE /\ claim_vault' = claim_vault - winnings
                          /\ user_token_account' =
                                 [ user_token_account EXCEPT ![user] = @ + winnings ]
                          /\ market' = [ m EXCEPT !.total_claimed = @ + winnings ]
                          /\ last' = res("Ok", winnings)
                  /\ UNCHANGED << program, liquidity_vars, calc, create_vars, clock, instr_bet, vault, protocol_fee_account, lib_vars >>

\* The bets, the resolution and the claims on the seeded accounts of the
\* instruction modules, the claims running without rollback.
OrderNext ==
    \/ Tick
    \/ \E u \in Bettors, o \in OutcomeIds, a \in OddsAmounts :
          /\ PlaceBet(u, o, a)
          /\ last'.err = "Ok" => market.total_bets < MaxBets
    \/ \E o \in OutcomeIds : ResolveMarket(Oracle, o, 0)
    \/ \E u \in Signers, owner \in Bettors : ClaimWinningsInOrder(u, owner)

OrderSpec == SeededAccounts /\ [][OrderNext]_vars

\* ------------------------------------ instructions/create_market.rs
\* The length bounds, the horizon and the caps of the handler.
MaxMarketIdLen == 32
MaxTitleLen == 128
MaxDescriptionLen == 512
MaxCategoryLen == 32
MaxResolutionSourceLen == 128
MaxHorizon == 365 * 24 * 60 * 60
MinInitialLiquidity == 1000
MaxCreatorFeeBps == 1000
MaxPlatformFeeBps == 500

\* The longest seed of a program address (solana MAX_SEED_LEN): longer
\* seeds have no program address.
MaxSeedLen == 32

\* The bounds of lib.rs initialize_market.
LibMaxTitleLen == 100
LibMaxDescriptionLen == 500

\* Parameters of create_market that pass every check at times 0 and 1 when
\* end_time is 2 or MaxHorizon; strings are given by their lengths.
CreateParamsInRange ==
    [ market_id_len : {MaxMarketIdLen},
      title_len : {MaxTitleLen},
      description_len : {MaxDescriptionLen},
      category_len : {MaxCategoryLen},
      resolution_source_len : {MaxResolutionSourceLen},
      end_time : {0, 1, 2, MaxHorizon, MaxHorizon + 1, MaxHorizon + 2},
      initial_liquidity : {MinInitialLiquidity, 2000},
      creator_fee_bps : {0, MaxCreatorFeeBps},
      platform_fee_bps : {0, MaxPlatformFeeBps} ]

\* The same with one parameter out of its range.
CreateParamsOutOfRange ==
    LET p == [ market_id_len |-> MaxMarketIdLen, title_len |-> MaxTitleLen,
               description_len |-> MaxDescriptionLen, category_len |-> MaxCategoryLen,
               resolution_source_len |-> MaxResolutionSourceLen, end_time |-> 2,
               initial_liquidity |-> MinInitialLiquidity,
               creator_fee_bps |-> 0, platform_fee_bps |-> 0 ]
    IN { [ p EXCEPT !.market_id_len = MaxMarketIdLen + 1 ],
         [ p EXCEPT !.title_len = MaxTitleLen + 1 ],
         [ p EXCEPT !.description_len = MaxDescriptionLen + 1 ],
         [ p EXCEPT !.category_len = MaxCategoryLen + 1 ],
         [ p EXCEPT !.resolution_source_len = MaxResolutionSourceLen + 1 ],
         [ p EXCEPT !.initial_liquidity = MinInitialLiquidity - 1 ],
         [ p EXCEPT !.creator_fee_bps = MaxCreatorFeeBps + 1 ],
         [ p EXCEPT !.platform_fee_bps = MaxPlatformFeeBps + 1 ] }

CreateParams == CreateParamsInRange \cup CreateParamsOutOfRange

\* Inputs of lib.rs initialize_market.
LibTitleLens == {LibMaxTitleLen, LibMaxTitleLen + 1}
LibDescriptionLens == {LibMaxDescriptionLen, LibMaxDescriptionLen + 1}
LibResolutionTimes == {0, 1, 2, MaxHorizon + 2}
LibMinBetAmounts == {0, 50}

\* The checks of the handler in the order of the code.  The first one is
\* made by the handler but decides no call of create_market: an id longer
\* than MaxMarketIdLen has failed before, at the derivation of the address.
CreateMarketCheck(current_time, p) ==
    IF ~(p.market_id_len <= MaxMarketIdLen) THEN "MarketIdTooLong"
    ELSE IF ~(p.title_len <= MaxTitleLen) THEN "TitleTooLong"
    ELSE IF ~(p.description_len <= MaxDescriptionLen) THEN "DescriptionTooLong"
    ELSE IF ~(p.category_len <= MaxCategoryLen) THEN "CategoryTooLong"
    ELSE IF ~(p.resolution_source_len <= MaxResolutionSourceLen) THEN "ResolutionSourceTooLong"
    ELSE IF ~(p.end_time > current_time) THEN "InvalidEndTime"
    ELSE IF ~(p.end_time <= current_time + MaxHorizon) THEN "EndTimeTooFar"
    ELSE IF ~(p.initial_liquidity >= MinInitialLiquidity) THEN "InsufficientInitialLiquidity"
    ELSE IF ~(p.creator_fee_bps <= MaxCreatorFeeBps) THEN "CreatorFeeTooHigh"
    ELSE IF ~(p.platform_fee_bps <= MaxPlatformFeeBps) THEN "PlatformFeeTooHigh"
    ELSE "Ok"

\* The Market account as the handler writes it: the fields of lines 147-159
\* and, for those the other handlers read, what MarketAfterCreate gives.
CreatedMarket(creator, current_time, p) ==
    [ market_id_len |-> p.market_id_len,
      title_len |-> p.title_len,
      description_len |-> p.description_len,
      category_len |-> p.category_len,
      creator |-> creator,
      created_at |-> current_time,
      end_time |-> p.end_time,
      resolution_source_len |-> p.resolution_source_len,
      status |-> "Active",
      creator_fee_bps |-> p.creator_fee_bps,
      platform_fee_bps |-> p.platform_fee_bps ] @@ MarketAfterCreate(p.end_time)

\* create_market: the address of the market account is derived from the
\* seeds [b"market", market_id] before the handler runs, and the program
\* panics on an id longer than a seed may be; then the init constraint on
\* the market account, the checks of the handler, and the five accounts are
\* written and the initial liquidity is transferred from the creator to the
\* liquidity vault.
create_market(creator, p) ==
    /\ program = "instructions"
    /\ LET err == IF p.market_id_len > MaxSeedLen THEN "Panic"
                  ELSE IF market # Unallocated THEN "AccountAlreadyInUse"
                  ELSE CreateMarketCheck(clock, p)
       IN IF err # "Ok" THEN Fail(Result("create_market", err, 0))
          ELSE /\ market' = CreatedMarket(creator, clock, p)
               /\ market_stats' = NewMarketStats(p.initial_liquidity)
               /\ outcome_tokens' = NewOutcomeTokens
               /\ liquidity_pool' = NewLiquidityPool(p.initial_liquidity)
               /\ market_resolution' = NewMarketResolution
               /\ creator_token_account' = creator_token_account - p.initial_liquidity
               /\ liquidity_vault' = liquidity_vault + p.initial_liquidity
               /\ last' = Result("create_market", "Ok", p.initial_liquidity)
               /\ UNCHANGED << program, clock, calc, instr_bet, claim_accounts, vault, protocol_fee_account,
                               user_token_account, lib_vars,
                               user_liquidity_position, liquidity_position,
                               lp_token_mint, outcome_a_vault, outcome_b_vault,
                               pool_token_account, provider_lp_token_account,
                               provider_outcome_a_account, provider_outcome_b_account,
                               provider_token_account >>

\* ------------------------------------------- lib.rs initialize_market
\* The checks of initialize_market in the order of the code.
InitializeMarketCheck(now, title_len, description_len, resolution_time, min_bet_amount) ==
    IF ~(resolution_time > now) THEN "InvalidResolutionTime"
    ELSE IF ~(title_len <= LibMaxTitleLen) THEN "TitleTooLong"
    ELSE IF ~(description_len <= LibMaxDescriptionLen) THEN "DescriptionTooLong"
    ELSE IF ~(min_bet_amount > 0) THEN "InvalidMinBetAmount"
    ELSE "Ok"

\* initialize_market: the init constraint on the market account, the
\* checks, then the market account is written.
InitializeMarket(title_len, description_len, resolution_time, min_bet_amount) ==
    /\ program = "lib"
    /\ LET err == IF lib_market # Unallocated THEN "AccountAlreadyInUse"
                  ELSE InitializeMarketCheck(clock, title_len, description_len,
                                             resolution_time, min_bet_amount)
       IN IF err # "Ok" THEN Fail(Result("initialize_market", err, 0))
          ELSE /\ lib_market' = [ initialize_market(resolution_time, min_bet_amount)
                                    EXCEPT !.creation_time = clock ]
               /\ last' = Result("initialize_market", "Ok", 0)
               /\ UNCHANGED << program, liquidity_vars, calc, create_vars, clock, instr_vars,
                               bet, market_vault, bettor_token_account >>

\* ---------------------------------------------------------- CreateSpec
\* No account is allocated.
CreateInit ==
    /\ program \in {"instructions", "lib"}
    /\ clock = 0
    /\ last = NoResult
    /\ market = Unallocated
    /\ lib_market = Unallocated
    /\ instr_bet = [ u \in Bettors |-> EmptyInstrBet ]
    /\ vault = 0
    /\ position = [ u \in Bettors |-> NoPosition ]
    /\ claim_vault = 0
    /\ protocol_fee_account = 0
    /\ user_token_account = [ u \in Signers |-> 0 ]
    /\ bet = [ u \in Bettors |-> EmptyBet ]
    /\ market_vault = 0
    /\ bettor_token_account = [ u \in Signers |-> 0 ]
    /\ liquidity_pool = Unallocated
    /\ user_liquidity_position = [ u \in Bettors |-> NoUserLiquidityPosition ]
    /\ liquidity_position = [ u \in Bettors |-> NoLiquidityPosition ]
    /\ lp_token_mint = 0
    /\ outcome_a_vault = 0
    /\ outcome_b_vault = 0
    /\ liquidity_vault = 0
    /\ pool_token_account = 0
    /\ provider_lp_token_account = [ u \in Bettors |-> 0 ]
    /\ provider_outcome_a_account = [ u \in Bettors |-> 0 ]
    /\ provider_outcome_b_account = [ u \in Bettors |-> 0 ]
    /\ provider_token_account = [ u \in Bettors |-> 0 ]
    /\ market_stats = Unallocated
    /\ outcome_tokens = Unallocated
    /\ market_resolution = Unallocated
    /\ creator_token_account = 0
    /\ calc = NoCalc

\* The creation of a market by either program.
CreateNext ==
    \/ \E p \in CreateParams : create_market(Creator, p)
    \/ \E t \in LibTitleLens, d \in LibDescriptionLens, r \in LibResolutionTimes, lo \in LibMinBetAmounts :
          InitializeMarket(t, d, r, lo)

\* ----------------------------------------------------------------- Next
\* Every instruction of the two programs, and the clock.  In these
\* behaviours no deposit takes an outcome vault beyond  MaxBettingReserve.
PoolNext ==
    \/ \E u \in Bettors, lo \in MinLpTokens :
          \E a, b \in { x \in LiquidityAmounts : x <= MaxBettingReserve } :
             /\ add_liquidity(u, a, b, lo)
             /\ last'.err = "Ok" =>
                    outcome_a_vault' <= MaxBettingReserve /\ outcome_b_vault' <= MaxBettingReserve
    \/ \E u \in Bettors, s \in Signers, lp \in LpBurnAmounts : remove_liquidity(u, s, lp)

Next ==
    \/ Tick
    \/ InstructionsNext
    \/ LibNext
    \/ PoolNext
    \/ CreateNext

\* The accounts of a new market, as the creation leaves them or, for the
\* instruction modules, with the position accounts of the providers that
\* no instruction creates: allocated and zero, or those of one provider who
\* holds LP tokens of the pool (SeededProviderShares).
Init ==
    \/ CreatedInit
    \/ /\ program = "instructions"
       /\ BettingInit
       /\ market.protocol_fee_rate = 200
       /\ market.max_payout_per_bet = 2000
       /\ market.outcome_pools = ZeroPools
       /\ SeededProviders
       /\ calc = NoCalc
    \/ /\ program = "instructions"
       /\ BettingAccounts(SeededBalance(SeededProviderShares, 0))
       /\ market.protocol_fee_rate = 200
       /\ market.max_payout_per_bet = 2000
       /\ market.outcome_pools = ZeroPools
       /\ SeededPool(SeededProviderShares, 0, 0, TRUE)
       /\ CreatedAccounts(InitialLiquidity)
       /\ calc = NoCalc

\* The two programs on the accounts of a market as the spec describes it.
Spec == Init /\ [][Next]_vars

\* The same from the seeded accounts of resolve_market.rs and
\* claim_winnings.rs as well.
SeededSpec == (CreatedInit \/ SeededAccounts) /\ [][Next]_vars

\* The two programs from the start: no account is allocated at first, the
\* creation is called with parameters inside and outside their ranges, and
\* every instruction is called on what it leaves.
CreateSpec == CreateInit /\ [][Next]_vars

\* ======================================================== properties
Terminal == {"Resolved", "Cancelled"}

\* What calculate_winnings returns for the Position account of  owner  now.
WinningsOf(owner) ==
    calculate_winnings(market.resolved_outcome,
                       position[owner].outcome,
                       position[owner].amount,
                       market.yes_pool,
                       market.no_pool,
                       market.fee_rate)

\* The bettors that hold a Bet account of place_bet.rs.
Positions == { o \in Bettors : instr_bet[o].bettor # DefaultPubkey }

\* The Bet account of  o  holds a stake on the outcome resolve_market.rs
\* recorded as the winning one.
IsWinner(o) ==
    /\ market.winning_outcome \in OutcomeIds
    /\ instr_bet[o].outcomes[market.winning_outcome].amount > 0

\* C1: a claim on a position (or lib.rs bet) whose claimed flag is already
\* true fails, with AlreadyClaimed when made by its owner on a resolved
\* market, pays nothing and changes no account; the flag is never reset and
\* a successful claim turns exactly one unclaimed flag to claimed, so at
\* most one claim per position succeeds.
C1_NoDoublePayout ==
    /\ [] ( \A u \in Signers, o \in Bettors :
               (program = "instructions" /\ position[o].claimed) =>
                   LET err == ClaimWinningsCheck(market, position[o], u, o)
                   IN /\ err # "Ok"
                      /\ (u = o /\ market.status = "Resolved") => err = "AlreadyClaimed" )
    /\ [][ /\ (last'.op = "claim" /\ last'.err # "Ok") =>
                 /\ last'.paid = 0
                 /\ UNCHANGED << instr_vars, lib_vars >>
           /\ (last'.op = "claim" /\ program = "lib") =>
                 \A u \in Signers, o \in Bettors :
                     (claim_winnings(u, o) /\ bet[o].claimed) =>
                         /\ last'.err # "Ok"
                         /\ (u = o /\ lib_market.status = "Resolved") =>
                                last'.err = "AlreadyClaimed"
           /\ \A o \in Bettors :
                 /\ position[o].claimed => position'[o].claimed
                 /\ bet[o].claimed => bet'[o].claimed
           /\ (last'.op = "claim" /\ last'.err = "Ok" /\ program = "instructions") =>
                 Cardinality({ o \in Bettors : ~position[o].claimed /\ position'[o].claimed }) = 1
           /\ (last'.op = "claim" /\ last'.err = "Ok" /\ program = "lib") =>
                 Cardinality({ o \in Bettors : ~bet[o].claimed /\ bet'[o].claimed }) = 1
         ]_vars

\* C1 witness: after a claim was paid, a second claim on the claimed
\* position was refused.
C1_Witness ==
    /\ program = "instructions"
    /\ market.total_claimed > 0
    /\ last = Result("claim", "AlreadyClaimed", 0)
    /\ \E o \in Bettors : position[o].claimed

\* A claim by  o  on its own position would be paid now.
CanClaim(o) ==
    /\ ClaimWinningsCheck(market, position[o], o, o) = "Ok"
    /\ WinningsOf(o).err = "Ok"
    /\ WinningsOf(o).value > 0
    /\ WinningsOf(o).value <= claim_vault

\* The market is resolved and no claim can succeed any more.
FullyClaimed ==
    /\ program = "instructions"
    /\ market.status = "Resolved"
    /\ \A o \in Bettors : ~CanClaim(o)

\* C2: conservation. Once a market with bets on the winning outcome is
\* resolved and every claim that can be paid has been paid, the net amounts
\* paid plus the protocol fee equal the total staked, up to a remainder of
\* one unit per claimant and never more than the pool.
C2_Conservation ==
    (FullyClaimed /\ \E o \in Positions : IsWinner(o)) =>
        LET paid == market.total_claimed + protocol_fee_account
        IN /\ paid <= market.total_volume
           /\ market.total_volume - paid <= Cardinality(Positions)

\* C3: the status of a Resolved or Cancelled market never changes again,
\* and resolve and cancel on such a market fail with MarketNotActive.
C3_StatusMonotonic ==
    [][ /\ market.status \in Terminal => market'.status = market.status
        /\ lib_market.status \in Terminal => lib_market'.status = lib_market.status
        /\ ( /\ last'.op \in {"resolve", "cancel"}
             /\ \/ program = "instructions" /\ market.status \in Terminal
                \/ program = "lib" /\ lib_market.status \in Terminal ) =>
              last'.err = "MarketNotActive"
      ]_vars

\* C3 witness: on a Resolved market that holds bets, a provider has
\* withdrawn liquidity and the status is still Resolved.
C3_Witness ==
    /\ program = "instructions"
    /\ market.status = "Resolved"
    /\ market.total_volume > 0
    /\ last.op = "remove_liquidity"
    /\ last.err = "Ok"

\* The resolve contract of C4 on one step, with the error reported to a
\* caller that is not the oracle left open (instruction module, lib.rs).
C4_Step(unauthorized, lib_unauthorized) ==
    last'.op = "resolve" =>
    /\ \A s \in Signers, o \in OutcomeInputs, n \in OracleDataLens :
          ResolveMarket(s, o, n) =>
              LET is_oracle == s = market.oracle
                  expired == clock >= market.resolution_time
                  active == market.status = "Active"
                  valid == o < Cardinality(DOMAIN market.outcomes)
                  ok == last'.err = "Ok"
              IN /\ ok => (is_oracle /\ expired /\ active /\ valid)
                 /\ ok => /\ market'.status = "Resolved"
                          /\ market'.winning_outcome = o
                          /\ market'.resolution_timestamp = clock
                 /\ ~ok => UNCHANGED << market, vault, protocol_fee_account, instr_bet, claim_accounts >>
                 /\ (~is_oracle /\ expired /\ active /\ valid) => last'.err = unauthorized
                 /\ (is_oracle /\ ~expired /\ active /\ valid) => last'.err = "MarketNotExpired"
                 /\ (is_oracle /\ expired /\ ~active /\ valid) => last'.err = "MarketNotActive"
                 /\ (is_oracle /\ expired /\ active /\ ~valid) => last'.err = "InvalidOutcome"
                 /\ ~(is_oracle /\ expired /\ active /\ valid) =>
                       last'.err \in
                           (IF is_oracle THEN {} ELSE {unauthorized}) \cup
                           (IF expired THEN {} ELSE {"MarketNotExpired"}) \cup
                           (IF active THEN {} ELSE {"MarketNotActive"}) \cup
                           (IF valid THEN {} ELSE {"InvalidOutcome"})
    /\ \A s \in Signers, o \in BOOLEAN :
          resolve_market(s, o) =>
              LET is_oracle == s = lib_market.oracle
                  expired == clock >= lib_market.resolution_time
                  active == lib_market.status = "Active"
                  ok == last'.err = "Ok"
              IN /\ ok <=> (is_oracle /\ expired /\ active)
                 /\ ok => /\ lib_market'.status = "Resolved"
                          /\ lib_market'.resolved_outcome = (IF o THEN Yes ELSE No)
                          /\ lib_market'.resolution_timestamp = clock
                 /\ ~ok => UNCHANGED << lib_market, market_vault, bet >>
                 /\ (~is_oracle /\ expired /\ active) => last'.err = lib_unauthorized
                 /\ (is_oracle /\ ~expired /\ active) => last'.err = "MarketNotExpired"
                 /\ ~active => last'.err = "MarketNotActive"

\* C4: resolve succeeds only for the oracle, at or after the resolution
\* deadline, on an Active market and with an outcome in range; otherwise it
\* fails with UnauthorizedResolver, MarketNotExpired, MarketNotActive or
\* InvalidOutcome respectively and changes nothing; on success the status is
\* Resolved and the outcome and the timestamp are recorded.
C4_ResolveContract == [][ C4_Step("UnauthorizedResolver", "UnauthorizedResolver") ]_vars

\* The same contract with the errors the handlers return to a caller that
\* is not the oracle: InvalidOracle (resolve_market.rs), UnauthorizedOracle
\* (lib.rs).
C4_ReturnedErrors == [][ C4_Step("InvalidOracle", "UnauthorizedOracle") ]_vars

\* C5: a successful resolve of a market with total pool T, fee rate r and
\* winning pool W moves exactly floor(T * r / 10000) from the vault to the
\* protocol-fee account and stores floor((T - fee) * 10000 / W) as the
\* payout ratio when W > 0.
C5_ResolveAmounts ==
    [][ (last'.op = "resolve" /\ last'.err = "Ok") =>
        \A s \in Signers, o \in OutcomeInputs, n \in OracleDataLens :
          ResolveMarket(s, o, n) =>
              LET T == market.total_pool
                  r == market.protocol_fee_rate
                  W == market.outcome_pools[o + 1]
                  fee == (T * r) \div 10000
              IN /\ vault' = vault - fee
                 /\ protocol_fee_account' = protocol_fee_account + fee
                 /\ last'.paid = fee
                 /\ W > 0 => market'.payout_ratio = ((T - fee) * 10000) \div W
      ]_vars

\* C5 witness: a resolution whose fee and payout ratio are both rounded.
C5_Witness ==
    /\ program = "instructions"
    /\ last.op = "resolve" /\ last.err = "Ok" /\ last.paid > 0
    /\ market.payout_ratio > 0
    /\ (market.total_pool * market.protocol_fee_rate) % BPS # 0
    /\ ((market.total_pool - last.paid) * BPS)
           % market.outcome_pools[market.winning_outcome + 1] # 0

\* C6: in a resolved market the winning outcome and the payout ratio are
\* the same in every later state.
C6_ResolutionImmutable ==
    [][ /\ market.status = "Resolved" =>
              /\ market'.winning_outcome = market.winning_outcome
              /\ market'.resolved_outcome = market.resolved_outcome
              /\ market'.payout_ratio = market.payout_ratio
        /\ lib_market.status = "Resolved" =>
              lib_market'.resolved_outcome = lib_market.resolved_outcome
      ]_vars

\* C6 witness: a further resolve was attempted on a resolved market with a
\* payout ratio.
C6_Witness ==
    /\ program = "instructions"
    /\ market.status = "Resolved"
    /\ market.payout_ratio > 0
    /\ last = Result("resolve", "MarketNotActive", 0)

\* C7: a successful claim pays floor(amount * payout_ratio / 10000), with
\* the ratio stored at resolution, and adds that amount to total_claimed.
C7_ClaimUsesPayoutRatio ==
    [][ (last'.op = "claim" /\ last'.err = "Ok") =>
        \A u \in Signers, o \in Bettors :
          ClaimWinnings(u, o) =>
              LET net == (position[o].amount * market.payout_ratio) \div 10000
              IN /\ last'.paid = net
                 /\ claim_vault' = claim_vault - net
                 /\ market'.total_claimed = market.total_claimed + net
      ]_vars

\* C8: the owner's first claim on a losing position of a resolved market
\* succeeds with winnings 0: it sets claimed, moves no funds, and a later
\* claim is refused with AlreadyClaimed.
C8_LosingClaimMarksClaimed ==
    [][ last'.op = "claim" =>
        \A o \in Bettors :
          ( /\ ClaimWinnings(o, o)
            /\ market.status = "Resolved"
            /\ market.resolved_outcome \in OutcomeIds
            /\ position[o].initialized
            /\ ~position[o].claimed
            /\ position[o].outcome # market.resolved_outcome ) =>
              /\ last'.err = "Ok"
              /\ last'.paid = 0
              /\ position'[o].claimed
              /\ claim_vault' = claim_vault
      ]_vars

\* C9: claim_winnings fails with MarketNotResolved on a market that is not
\* Resolved, with InvalidPosition for a caller that does not own the
\* position, with AlreadyClaimed on a claimed position and with NoWinnings
\* when the computed winnings are zero; a failed claim moves no funds and
\* leaves the claimed flag, the vault and total_claimed as they were.
C9_ClaimErrors ==
    [][ last'.op = "claim" =>
        \A u \in Signers, o \in Bettors :
          (ClaimWinnings(u, o) /\ position[o].initialized) =>
              LET resolved == market.status = "Resolved"
                  owns == position[o].user = u
                  claimed == position[o].claimed
                  w == WinningsOf(o)
              IN /\ ~resolved => last'.err = "MarketNotResolved"
                 /\ (resolved /\ ~owns) => last'.err = "InvalidPosition"
                 /\ (resolved /\ owns /\ claimed) => last'.err = "AlreadyClaimed"
                 /\ (resolved /\ owns /\ ~claimed /\ w.err = "Ok" /\ w.value = 0)
                        => last'.err = "NoWinnings"
                 /\ last'.err = "NoWinnings" => (w.err = "Ok" /\ w.value = 0)
                 /\ last'.err # "Ok" =>
                        /\ last'.paid = 0
                        /\ UNCHANGED << position, claim_vault, user_token_account >>
                        /\ market'.total_claimed = market.total_claimed
      ]_vars

\* The state of scenario 1: fee rate 200 bps, one bet of 1000 on Yes by
\* yes_bettor, one bet of 1000 on No by no_bettor, resolved to Yes.
Scenario1(yes_bettor, no_bettor) ==
    /\ program = "instructions"
    /\ market.protocol_fee_rate = 200
    /\ market.total_bets = 2
    /\ instr_bet[yes_bettor].outcomes[Yes].amount = 1000
    /\ instr_bet[yes_bettor].outcomes[No].amount = 0
    /\ instr_bet[no_bettor].outcomes[No].amount = 1000
    /\ instr_bet[no_bettor].outcomes[Yes].amount = 0
    /\ market.status = "Resolved"
    /\ market.winning_outcome = Yes

\* C10: in scenario 1 the protocol fee extracted by the resolution is 40,
\* and the claim of the Yes bettor is paid exactly 1960.
C10_Scenario1 ==
    /\ [] ( \A y \in Bettors : \A n \in Bettors \ {y} :
               Scenario1(y, n) => protocol_fee_account = 40 )
    /\ [][ \A y \in Bettors : \A n \in Bettors \ {y} :
             (Scenario1(y, n) /\ ClaimWinnings(y, y) /\ market.total_claimed = 0) =>
                 /\ last' = Result("claim", "Ok", 1960)
                 /\ user_token_account'[y] = 1960 - 1000
         ]_vars

\* The market of claim_winnings.rs was resolved to an outcome whose pool is
\* empty.
EmptyWinningPool ==
    /\ market.status = "Resolved"
    /\ market.resolved_outcome \in OutcomeIds
    /\ (IF market.resolved_outcome = Yes THEN market.yes_pool ELSE market.no_pool) = 0

lib_EmptyWinningPool ==
    /\ lib_market.status = "Resolved"
    /\ lib_market.resolved_outcome \in OutcomeIds
    /\ (IF lib_market.resolved_outcome = Yes
        THEN lib_market.total_yes_amount ELSE lib_market.total_no_amount) = 0

\* C11: the oracle's resolve after the resolution time to an outcome whose
\* pool is 0 succeeds, when the vault covers the fee and the fee is within
\* the pool (a fee rate of at most 10000), and stores payout ratio 0; in a
\* market resolved to an outcome with an empty pool every claim fails, and
\* the vault and every user's balance stay as they are.
C11_EmptyWinningPool ==
    [][ /\ (last'.op = "resolve" /\ program = "instructions") =>
              \A o \in OutcomeIds, n \in OracleDataLens :
                  ( /\ ResolveMarket(Oracle, o, n)
                    /\ market.status = "Active"
                    /\ clock >= market.resolution_time
                    /\ n <= MaxOracleData
                    /\ ProtocolFee(market.total_pool, market.protocol_fee_rate) <= vault
                    /\ ProtocolFee(market.total_pool, market.protocol_fee_rate) <= market.total_pool
                    /\ o + 1 <= Len(market.outcome_pools)
                    /\ market.outcome_pools[o + 1] = 0 ) =>
                      /\ last'.err = "Ok"
                      /\ market'.status = "Resolved"
                      /\ market'.payout_ratio = 0
        /\ (program = "instructions" /\ EmptyWinningPool) =>
              /\ claim_vault' = claim_vault
              /\ user_token_account' = user_token_account
              /\ market'.total_claimed = market.total_claimed
              /\ last'.op = "claim" => (last'.err # "Ok" /\ last'.paid = 0)
        /\ lib_EmptyWinningPool =>
              /\ market_vault' = market_vault
              /\ bettor_token_account' = bettor_token_account
              /\ last'.op = "claim" => (last'.err # "Ok" /\ last'.paid = 0)
      ]_vars

\* C11 witness: in a market resolved to an outcome with an empty pool the
\* claim of a position on that outcome was refused, the vault untouched.
C11_Witness ==
    /\ program = "instructions"
    /\ EmptyWinningPool
    /\ claim_vault > 0
    /\ \E o \in Bettors : position[o].initialized /\ position[o].outcome = market.resolved_outcome
    /\ last = Result("claim", "MathOverflow", 0)

\* The rejections of place_bet of C12 in the current state, with the names
\* of the two bet-limit errors left open: a call for which one of the
\* conditions holds is rejected, with the error of the condition when it is
\* the only one.
C12_Errors(below_minimum, above_maximum) ==
    program = "instructions" =>
        \A o \in OutcomeInputs, a \in BetAmounts :
            LET zero == a = 0
                below == a > 0 /\ a < market.min_bet_amount
                above == a > market.max_bet_amount
                badout == ~(o < Cardinality(DOMAIN market.outcomes))
                inactive == market.status # "Active"
                expired == clock >= market.end_time
                B(c) == IF c THEN 1 ELSE 0
                n == B(zero) + B(below) + B(above) + B(badout) + B(inactive) + B(expired)
                only(c) == c /\ n = 1
                err == PlaceBetCheck(market, o, a)
            IN /\ n > 0 => err # "Ok"
               /\ only(zero) => err = "InvalidBetAmount"
               /\ only(below) => err = below_minimum
               /\ only(above) => err = above_maximum
               /\ only(badout) => err = "InvalidOutcome"
               /\ only(inactive) => err = "MarketNotActive"
               /\ only(expired) => err = "MarketExpired"

\* A rejected place_bet changes no account, and a place_bet is accepted only
\* for a non-zero amount within the market limits on an existing outcome of
\* an Active market before the deadline.
C12_Frame ==
    last'.op = "place_bet" =>
    /\ last'.err # "Ok" => UNCHANGED << instr_vars, lib_vars >>
    /\ (last'.err = "Ok" /\ program = "instructions") =>
          LET a == market'.total_volume - market.total_volume
          IN /\ a > 0
             /\ a >= market.min_bet_amount
             /\ a <= market.max_bet_amount
             /\ market.status = "Active"
             /\ clock < market.end_time
             /\ \E o \in OutcomeIds :
                   market'.outcomes[o].total_amount = market.outcomes[o].total_amount + a
    /\ (last'.err = "Ok" /\ program = "lib") =>
          LET a == lib_market'.total_volume - lib_market.total_volume
          IN /\ a >= lib_market.min_bet_amount
             /\ lib_market.status = "Active"
             /\ clock < lib_market.resolution_time

\* C12: place_bet is rejected, with no transfer and the market, its outcome
\* totals and the bettor's position unchanged, when the amount is 0
\* (InvalidBetAmount), below the market minimum (BetBelowMinimum), above the
\* market maximum (BetAboveMaximum), the outcome index is out of range
\* (InvalidOutcome), the market is not Active (MarketNotActive) or the
\* deadline has been reached (MarketExpired).
C12_PlaceBetErrors ==
    [] C12_Errors("BetBelowMinimum", "BetAboveMaximum") /\ [][ C12_Frame ]_vars

\* The same rejections with the errors place_bet.rs returns for a bet
\* outside the market limits: BetAmountTooLow, BetAmountTooHigh.
C12_ReturnedErrors ==
    [] C12_Errors("BetAmountTooLow", "BetAmountTooHigh") /\ [][ C12_Frame ]_vars

\* The potential payout of C13 for a bet of  a  on outcome  o  in the
\* current state: total_pool is the sum of all outcome totals.
C13_Payout(o, a) ==
    LET total_pool == SumTotals(market.outcomes, OutcomeIds)
        opposing_pool == total_pool - market.outcomes[o].total_amount
    IN IF opposing_pool > 0 THEN (a * total_pool) \div opposing_pool ELSE a * 2

\* C13: the potential payout place_bet computes is
\* floor(amount * total_pool / opposing_pool) on the totals before the bet,
\* or amount * 2 without an opposing pool; a bet that passes the other
\* checks is refused with PayoutTooHigh, with all accounts unchanged, exactly
\* when that value exceeds max_payout_per_bet.
C13_PayoutCap ==
    /\ [] ( \A o \in OutcomeIds, a \in BetAmounts :
               program = "instructions" =>
                   PotentialPayout(a, market.outcomes[o].total_amount,
                                   OpposingPool(market, o)) = C13_Payout(o, a) )
    /\ [][ ( /\ last'.op = "place_bet"
             /\ program = "instructions"
             /\ last'.err \in {"Ok", "PayoutTooHigh"} ) =>
               \A u \in Bettors, o \in OutcomeIds, a \in BetAmounts :
                   PlaceBet(u, o, a) =>
                       /\ last'.err = "PayoutTooHigh" <=>
                              C13_Payout(o, a) > market.max_payout_per_bet
                       /\ last'.err = "PayoutTooHigh" =>
                              UNCHANGED << instr_vars, lib_vars >>
                       /\ last'.err = "Ok" => vault' = vault + a
          ]_vars

\* C13 witness: a bet was refused with PayoutTooHigh while both outcomes
\* held a pool.
C13_Witness ==
    /\ program = "instructions"
    /\ market.outcomes[Yes].total_amount > 0
    /\ market.outcomes[No].total_amount > 0
    /\ last = Result("place_bet", "PayoutTooHigh", 0)

\* C14: a successful claim on a position never pays more than the
\* market's max_payout_per_bet.
C14_CapBoundsPayout ==
    [][ ( /\ last'.op = "claim"
         /\ last'.err = "Ok"
         /\ program = "instructions" ) =>
           last'.paid <= market.max_payout_per_bet
      ]_vars

\* C15: the outcome totals of a market always add up to its total volume;
\* a successful place_bet(outcome, amount) adds exactly amount to the total
\* of its outcome and to the total volume and leaves the other totals as
\* they were, and no other step changes them.
C15_TotalsSumToVolume ==
    /\ [] ( /\ SumTotals(market.outcomes, OutcomeIds) = market.total_volume
            /\ lib_market.total_yes_amount + lib_market.total_no_amount
                   = lib_market.total_volume )
    /\ [][ /\ (last'.op = "place_bet" /\ last'.err = "Ok" /\ program = "instructions") =>
                 \A u \in Bettors, o \in OutcomeIds, a \in BetAmounts :
                     PlaceBet(u, o, a) =>
                         /\ market'.outcomes[o].total_amount =
                                market.outcomes[o].total_amount + a
                         /\ market'.total_volume = market.total_volume + a
                         /\ \A x \in OutcomeIds \ {o} :
                                market'.outcomes[x].total_amount =
                                    market.outcomes[x].total_amount
           /\ (last'.op = "place_bet" /\ last'.err = "Ok" /\ program = "lib") =>
                 \A u \in Bettors, o \in BOOLEAN, a \in BetAmounts :
                     place_bet(u, o, a) =>
                         /\ lib_market'.total_volume = lib_market.total_volume + a
                         /\ lib_market'.total_yes_amount =
                                lib_market.total_yes_amount + (IF o THEN a ELSE 0)
                         /\ lib_market'.total_no_amount =
                                lib_market.total_no_amount + (IF o THEN 0 ELSE a)
           /\ ~(last'.op = "place_bet" /\ last'.err = "Ok") =>
                 /\ market'.total_volume = market.total_volume
                 /\ \A x \in OutcomeIds :
                        market'.outcomes[x].total_amount = market.outcomes[x].total_amount
                 /\ lib_market'.total_volume = lib_market.total_volume
                 /\ lib_market'.total_yes_amount = lib_market.total_yes_amount
                 /\ lib_market'.total_no_amount = lib_market.total_no_amount
         ]_vars

\* C15 witness: a bet was accepted on a market whose two outcomes hold
\* different non-zero totals.
C15_Witness ==
    /\ program = "instructions"
    /\ market.outcomes[Yes].total_amount > 0
    /\ market.outcomes[No].total_amount > market.outcomes[Yes].total_amount
    /\ last = Result("place_bet", "Ok", 0)

\* Sum over the positions in  S  of the amount staked on outcome  o.
RECURSIVE StakedOn(_, _)
StakedOn(o, S) ==
    IF S = {} THEN 0
    ELSE LET u == CHOOSE x \in S : TRUE
         IN instr_bet[u].outcomes[o].amount + StakedOn(o, S \ {u})

\* Sum over the lib.rs bets in  S  of the amount bet on  outcome.
RECURSIVE lib_StakedOn(_, _)
lib_StakedOn(outcome, S) ==
    IF S = {} THEN 0
    ELSE LET u == CHOOSE x \in S : TRUE
         IN (IF bet[u].outcome = outcome THEN bet[u].amount ELSE 0)
                + lib_StakedOn(outcome, S \ {u})

\* C16: the total amount of every position is the sum of its per-outcome
\* amounts, and the amounts all positions hold on an outcome add up to the
\* market's total for that outcome.
C16_PositionSums ==
    /\ \A u \in Bettors :
          instr_bet[u].total_amount =
              instr_bet[u].outcomes[Yes].amount + instr_bet[u].outcomes[No].amount
    /\ \A o \in OutcomeIds :
          StakedOn(o, Bettors) = market.outcomes[o].total_amount
    /\ lib_StakedOn(TRUE, Bettors) = lib_market.total_yes_amount
    /\ lib_StakedOn(FALSE, Bettors) = lib_market.total_no_amount

\* C16 witness: one position holds stakes on both outcomes after two bets.
C16_Witness ==
    /\ program = "instructions"
    /\ \E u \in Bettors :
          /\ instr_bet[u].outcomes[Yes].amount > 0
          /\ instr_bet[u].outcomes[No].amount > instr_bet[u].outcomes[Yes].amount
    /\ market.total_bets = 2

\* C17: a claimed flag is never reset; a position (or lib.rs bet) whose
\* flag is set is never changed again by any step; a position changes only
\* through a claim on a Resolved market, which sets the flag and its time;
\* the stakes of a bettor change through place_bet only while the market is
\* Active, and a lib.rs bet through place_bet only on an Active market,
\* through claim only on a Resolved one and through refund only on a
\* Cancelled one.
C17_ClaimedFrozen ==
    [][ \A o \in Bettors :
          /\ position[o].claimed => position'[o] = position[o]
          /\ bet[o].claimed => bet'[o] = bet[o]
          /\ position'[o] # position[o] =>
                /\ last' = Result("claim", "Ok", last'.paid)
                /\ market.status = "Resolved"
                /\ position'[o] = [ position[o] EXCEPT !.claimed = TRUE,
                                                       !.claimed_at = clock ]
          /\ instr_bet'[o] # instr_bet[o] =>
                /\ last' = Result("place_bet", "Ok", 0)
                /\ market.status = "Active"
          /\ bet'[o] # bet[o] =>
                /\ last'.err = "Ok"
                /\ \/ last'.op = "place_bet" /\ lib_market.status = "Active"
                   \/ last'.op = "claim" /\ lib_market.status = "Resolved"
                   \/ last'.op = "refund" /\ lib_market.status = "Cancelled"
                /\ last'.op \in {"claim", "refund"} =>
                      bet'[o] = [ bet[o] EXCEPT !.claimed = TRUE ]
      ]_vars

\* C17 witness: a bet was refused on a market in which a position has been
\* claimed and paid.
C17_Witness ==
    /\ program = "instructions"
    /\ market.total_claimed > 0
    /\ \E o \in Bettors : position[o].claimed /\ position[o].amount > 0
    /\ last = Result("place_bet", "MarketNotActive", 0)

\* C18: the odds_at_bet a position holds for an outcome it has bet on are
\* the same in every later state.
C18_OddsAtBetImmutable ==
    [][ \A u \in Bettors, o \in OutcomeIds :
          instr_bet[u].outcomes[o].amount > 0 =>
              instr_bet'[u].outcomes[o].odds_at_bet = instr_bet[u].outcomes[o].odds_at_bet
      ]_vars

\* The payout of C19 as a function of the final pool composition: the
\* stake on the winning outcome, the two outcome totals, the fee rate and
\* the winning outcome.
C19_Payout(stake, yes_total, no_total, rate, winning) ==
    LET W == IF winning = Yes THEN yes_total ELSE no_total
        gross == (stake * (yes_total + no_total)) \div W
    IN gross - (gross * rate) \div BPS

\* C19: the amount a successful claim pays is a function of the position's
\* stake on the winning outcome, the final outcome totals, the fee rate and
\* the winning outcome alone; the order of the bets and the odds recorded
\* on the bets or the market do not enter it.
C19_PayoutFromFinalPool ==
    [][ (last'.op = "claim" /\ last'.err = "Ok") =>
          /\ \A u \in Bettors :
                ClaimWinnings(u, u) =>
                    last'.paid =
                        C19_Payout(position[u].amount, market.yes_pool, market.no_pool,
                                   market.fee_rate, market.resolved_outcome)
          /\ \A u \in Bettors :
                claim_winnings(u, u) =>
                    last'.paid =
                        C19_Payout(bet[u].amount, lib_market.total_yes_amount,
                                   lib_market.total_no_amount, 0,
                                   lib_market.resolved_outcome)
      ]_vars

\* C19 witness: a claim was paid in a market where both outcomes hold a
\* pool and the fee is not zero.
C19_Witness ==
    /\ program = "instructions"
    /\ last.op = "claim" /\ last.err = "Ok" /\ last.paid > 0
    /\ market.yes_pool > 0
    /\ market.no_pool > 0
    /\ market.fee_rate > 0
    /\ \E u \in Bettors : position[u].claimed /\ position[u].claimed_at = clock

\* C20: after every accepted place_bet the current_odds of every outcome,
\* those without bets included, are 10000 when the outcome holds the whole
\* pool and the basis-point value floor(total_pool * 10000 / outcome_total)
\* otherwise.
C20_CurrentOdds ==
    [][ (last'.op = "place_bet" /\ last'.err = "Ok" /\ program = "instructions") =>
          LET total_pool == SumTotals(market'.outcomes, OutcomeIds)
          IN \A o \in OutcomeIds :
                LET outcome_total == market'.outcomes[o].total_amount
                    odds == market'.outcomes[o].current_odds
                IN /\ outcome_total = total_pool => odds = 10000
                   /\ (0 < outcome_total /\ outcome_total < total_pool) =>
                          odds = (total_pool * 10000) \div outcome_total
                   /\ outcome_total = 0 => odds # U64Max
      ]_vars

\* C21: cancel succeeds exactly when the caller is the creator or the oracle
\* of the market, the status is Active and the clock is before the
\* resolution time; it then sets the status to Cancelled and changes nothing
\* else.  In every other case it fails and the market is unchanged.
C21_CancelContract ==
    [][ (program = "lib" /\ last'.op = "cancel") =>
          \A s \in Signers :
             cancel_market(s) =>
                IF /\ s \in {lib_market.creator, lib_market.oracle}
                   /\ lib_market.status = "Active"
                   /\ clock < lib_market.resolution_time
                THEN /\ last'.err = "Ok"
                     /\ lib_market' = [ lib_market EXCEPT !.status = "Cancelled" ]
                     /\ UNCHANGED << bet, market_vault, bettor_token_account >>
                ELSE /\ last'.err # "Ok"
                     /\ UNCHANGED lib_vars
      ]_vars

\* C21 witness: a market with bets was cancelled before its deadline.
C21_Witness ==
    /\ program = "lib"
    /\ last = Result("cancel", "Ok", 0)
    /\ lib_market.status = "Cancelled"
    /\ lib_market.total_volume > 0
    /\ clock < lib_market.resolution_time

\* C22: add_liquidity(a, b) on a pool without LP tokens mints exactly
\* max(1000, floor(sqrt(a * b))) LP tokens, for every a, b > 0.
C22_InitialLp ==
    (calc.fn = "initial_lp" /\ calc.x # << >> /\ calc.y # << >>) =>
        LET root == WideSqrt(WideMul(calc.x, calc.y))
        IN calc.out = IF WideLess(root, Wide(MinimumLiquidity)) THEN Wide(MinimumLiquidity) ELSE root

\* C23: add_liquidity(a, b) on a pool with LP supply S > 0 and reserves
\* (Ra, Rb) mints exactly min(floor(a * S / Ra), floor(b * S / Rb)) LP tokens:
\* the supply of the mint, the provider's LP token account and the
\* provider's position all grow by that amount.
C23_ProportionalLp ==
    [][ (last'.op = "add_liquidity" /\ last'.err = "Ok" /\ lp_token_mint > 0) =>
          LET a == outcome_a_vault' - outcome_a_vault
              b == outcome_b_vault' - outcome_b_vault
              from_a == (a * lp_token_mint) \div outcome_a_vault
              from_b == (b * lp_token_mint) \div outcome_b_vault
              minted == IF from_a <= from_b THEN from_a ELSE from_b
          IN /\ a > 0 /\ b > 0
             /\ last'.paid = minted
             /\ lp_token_mint' = lp_token_mint + minted
             /\ \E u \in Bettors :
                   /\ user_liquidity_position'[u].lp_tokens = user_liquidity_position[u].lp_tokens + minted
                   /\ provider_lp_token_account'[u] = provider_lp_token_account[u] + minted
                   /\ \A v \in Bettors \ {u} :
                         /\ user_liquidity_position'[v] = user_liquidity_position[v]
                         /\ provider_lp_token_account'[v] = provider_lp_token_account[v]
      ]_vars

\* C23 witness: after a first deposit of (5000, 10000), which mints 7071 LP
\* tokens, a deposit of (5000, 5000) minted 3535: side B binds.
C23_Witness ==
    /\ last = Result("add_liquidity", "Ok", 3535)
    /\ lp_token_mint = 7071 + 3535
    /\ outcome_a_vault = 10000
    /\ outcome_b_vault = 15000

\* C24: a deposit by a provider with a position account that passes the
\* validation of the amounts, the status and the deadline fails with
\* SlippageExceeded whenever the LP amount it would mint is smaller than
\* min_lp_tokens; no token is then transferred, no LP token is minted, and
\* the pool, the positions and the market are unchanged.
C24_Slippage ==
    [][ last'.op = "add_liquidity" =>
          \A u \in Bettors, a \in LiquidityAmounts, b \in LiquidityAmounts, lo \in MinLpTokens :
             ( /\ add_liquidity(u, a, b, lo)
               /\ user_liquidity_position[u].initialized
               /\ market.status = "Active" /\ a > 0 /\ b > 0
               /\ clock < market.resolution_time
               /\ lp_token_mint = 0 \/ (outcome_a_vault > 0 /\ outcome_b_vault > 0) ) =>
                 IF LpTokensToMint(a, b, lp_token_mint, outcome_a_vault, outcome_b_vault) < lo
                 THEN /\ last'.err = "SlippageExceeded"
                      /\ UNCHANGED << liquidity_vars, instr_vars >>
                 ELSE last'.err = "Ok"
      ]_vars

\* C24 witness: a deposit into a pool that holds LP tokens was refused for
\* slippage.
C24_Witness ==
    /\ last = Result("add_liquidity", "SlippageExceeded", 0)
    /\ lp_token_mint > 0
    /\ outcome_a_vault > 0

\* C25: a withdrawal of lp LP tokens takes floor(pool_balance * lp /
\* total_lp_supply) out of the pool's accounting: that fraction of the pool
\* balance, rounded down.  On an Active market the provider receives it less
\* the fee floor(withdrawal * withdrawal_fee_bps / 10000), and the fees
\* collected by the pool grow by the fee; on a Resolved market the provider
\* receives all of it and no fee is recorded.
C25_Withdrawal ==
    [][ (last'.op = "remove_liquidity" /\ last'.err = "Ok") =>
          LET lp == liquidity_pool.total_lp_tokens - liquidity_pool'.total_lp_tokens
              supply == liquidity_pool.total_lp_tokens
              withdrawal == (pool_token_account * lp) \div supply
              fee == IF market.status = "Active"
                     THEN (withdrawal * liquidity_pool.withdrawal_fee_bps) \div 10000
                     ELSE 0
          IN /\ market.status \in {"Active", "Resolved"}
             /\ 0 < lp /\ lp <= supply
             /\ withdrawal * supply <= pool_token_account * lp
             /\ pool_token_account * lp < (withdrawal + 1) * supply
             /\ last'.paid = withdrawal - fee
             /\ pool_token_account' = pool_token_account - (withdrawal - fee)
             /\ liquidity_pool'.total_fees_collected = liquidity_pool.total_fees_collected + fee
             /\ liquidity_pool'.total_liquidity = liquidity_pool.total_liquidity - withdrawal
             /\ \E u \in Bettors :
                   /\ provider_token_account'[u] = provider_token_account[u] + (withdrawal - fee)
                   /\ liquidity_position'[u].lp_tokens = liquidity_position[u].lp_tokens - lp
                   /\ \A v \in Bettors \ {u} : provider_token_account'[v] = provider_token_account[v]
      ]_vars

\* C25 witness: a withdrawal without fee from the pool of a Resolved market,
\* after a withdrawal that paid a fee while the market was Active.
C25_Witness ==
    /\ last.op = "remove_liquidity"
    /\ last.err = "Ok"
    /\ last.paid > 0
    /\ market.status = "Resolved"
    /\ liquidity_pool.total_fees_collected > 0

\* C26: remove_liquidity fails, and transfers nothing, burns nothing and
\* leaves the pool, the positions and the market unchanged, whenever the
\* market is neither Active nor Resolved, lp is 0, lp exceeds the LP tokens
\* of the provider's position, the pool records no LP tokens, or the computed
\* withdrawal is 0.  With the market authority signing, the error is that of
\* the first of these checks to fail: MarketNotActive, InvalidAmount,
\* InsufficientLpTokens, EmptyPool, InvalidAmount.
C26_RemoveFailures ==
    [][ last'.op = "remove_liquidity" =>
          \A u \in Bettors, s \in Signers, lp \in LpBurnAmounts :
             remove_liquidity(u, s, lp) =>
                LET closed == ~(market.status \in {"Active", "Resolved"})
                    zero == lp = 0
                    short == lp > liquidity_position[u].lp_tokens
                    empty == liquidity_pool.total_lp_tokens = 0
                    nothing == ~empty /\ (pool_token_account * lp) \div liquidity_pool.total_lp_tokens = 0
                IN /\ (closed \/ zero \/ short \/ empty \/ nothing) =>
                         /\ last'.err # "Ok"
                         /\ last'.paid = 0
                         /\ UNCHANGED << liquidity_vars, instr_vars >>
                   /\ s = market.authority =>
                         /\ closed => last'.err = "MarketNotActive"
                         /\ (~closed /\ zero) => last'.err = "InvalidAmount"
                         /\ (~closed /\ ~zero /\ short) => last'.err = "InsufficientLpTokens"
                         /\ (~closed /\ ~zero /\ ~short /\ empty) => last'.err = "EmptyPool"
                         /\ (~closed /\ ~zero /\ ~short /\ nothing) => last'.err = "InvalidAmount"
      ]_vars

\* C26 witness: a provider whose position holds LP tokens was refused a
\* withdrawal from a pool that records none.
C26_Witness ==
    /\ last = Result("remove_liquidity", "EmptyPool", 0)
    /\ liquidity_pool.total_lp_tokens = 0
    /\ \E u \in Bettors : liquidity_position[u].lp_tokens > 0

\* C27: a provider whose position holds the s > 0 LP tokens that
\* add_liquidity minted to it redeems them all on an Active or Resolved
\* market: the withdrawal of s, signed by the market authority, succeeds,
\* burns the s LP tokens, leaves the position without LP tokens and
\* inactive, and takes one off the pool's count of active providers.
C27_Redeem ==
    [][ last'.op = "remove_liquidity" =>
          \A u \in Bettors, lp \in LpBurnAmounts :
             ( /\ remove_liquidity(u, market.authority, lp)
               /\ lp > 0
               /\ lp = user_liquidity_position[u].lp_tokens
               /\ lp = provider_lp_token_account[u]
               /\ market.status \in {"Active", "Resolved"} ) =>
                 /\ last'.err = "Ok"
                 /\ lp_token_mint' = lp_token_mint - lp
                 /\ provider_lp_token_account'[u] = provider_lp_token_account[u] - lp
                 /\ liquidity_position'[u].lp_tokens = 0
                 /\ ~liquidity_position'[u].is_active
                 /\ liquidity_pool'.active_providers = liquidity_pool.active_providers - 1
      ]_vars

\* C28: the LP tokens held over all liquidity positions of the pool add up
\* to the LP total the pool records, and no position holds more than it,
\* for the positions add_liquidity credits as for those remove_liquidity
\* debits.
C28_ShareSupply ==
    /\ user_liquidity_position["alice"].lp_tokens + user_liquidity_position["bob"].lp_tokens
           = liquidity_pool.total_lp_tokens
    /\ liquidity_position["alice"].lp_tokens + liquidity_position["bob"].lp_tokens
           = liquidity_pool.total_lp_tokens
    /\ \A u \in Bettors :
          /\ user_liquidity_position[u].lp_tokens <= liquidity_pool.total_lp_tokens
          /\ liquidity_position[u].lp_tokens <= liquidity_pool.total_lp_tokens

\* C29: over deposits and withdrawals the product of the two outcome
\* reserves never decreases, both as recorded by the pool and as held in
\* the two outcome vaults: a deposit adds to both reserves and a withdrawal,
\* which pays from the pool's token account, leaves them as they are.
C29_ReserveProduct ==
    [][ last'.op \in {"add_liquidity", "remove_liquidity"} =>
          /\ liquidity_pool'.outcome_a_reserve * liquidity_pool'.outcome_b_reserve
                 >= liquidity_pool.outcome_a_reserve * liquidity_pool.outcome_b_reserve
          /\ outcome_a_vault' * outcome_b_vault' >= outcome_a_vault * outcome_b_vault
          /\ (last'.op = "remove_liquidity" \/ last'.err # "Ok") =>
                 /\ liquidity_pool'.outcome_a_reserve = liquidity_pool.outcome_a_reserve
                 /\ liquidity_pool'.outcome_b_reserve = liquidity_pool.outcome_b_reserve
                 /\ UNCHANGED << outcome_a_vault, outcome_b_vault >>
          /\ (last'.op = "add_liquidity" /\ last'.err = "Ok") =>
                 /\ liquidity_pool'.outcome_a_reserve > liquidity_pool.outcome_a_reserve
                 /\ liquidity_pool'.outcome_b_reserve > liquidity_pool.outcome_b_reserve
      ]_vars

\* C29 witness: a withdrawal that paid the provider, from a pool that has
\* retained a withdrawal fee and whose reserves hold two deposits.
C29_Witness ==
    /\ last.op = "remove_liquidity"
    /\ last.err = "Ok"
    /\ last.paid > 0
    /\ liquidity_pool.total_fees_collected > 0
    /\ liquidity_pool.outcome_a_reserve >= 10000
    /\ liquidity_pool.outcome_b_reserve >= 10000

\* C30: every multiply-before-divide of the handlers gives the exact
\* quotient of the exact product whenever that quotient fits 64 bits, and
\* fails with an arithmetic error, storing nothing, whenever it does not:
\* x * y / z for the LP tokens of a deposit and for a withdrawal,
\* x * (y + z) / z (2 * x against an empty opposing pool) for the potential
\* payout of a bet, and (x / 2) * (x / 2) for the k constant of a new pool.
C30_NoSilentWrap ==
    LET ratio == WideDiv(WideMul(calc.x, calc.y), calc.z)
        payout == IF calc.z # << >>
                  THEN WideDiv(WideMul(calc.x, WideAdd(calc.y, calc.z)), calc.z)
                  ELSE WideMul(calc.x, Wide(2))
        half == WideDiv(calc.x, Wide(2))
        exact == IF calc.fn = "potential_payout" THEN payout
                 ELSE IF calc.fn = "k_constant" THEN WideMul(half, half)
                 ELSE ratio
    IN ( \/ calc.fn \in {"potential_payout", "k_constant"}
         \/ calc.fn \in {"lp_from", "withdrawal_amount"} /\ calc.z # << >> ) =>
           IF WideBitLength(exact) <= U64Bits
           THEN calc.err = "Ok" /\ calc.out = exact
           ELSE calc.err \in {"MathOverflow", "Panic"} /\ calc.out = << >>

\* C31: the creation of a market is rejected with InvalidConfiguration, and
\* no account is written and nothing is transferred, when a string is longer
\* than its bound, the creator fee exceeds 1000 bps, the platform fee exceeds
\* 500 bps, the deadline is not strictly after the current time or is more
\* than 365 days ahead; a market that is created is Active and its volume,
\* trade and liquidity counters are zero.
C31_CreateContract ==
    [][ /\ (last'.op = "create_market" /\ market = Unallocated) =>
              \A p \in CreateParams :
                 create_market(Creator, p) =>
                    /\ ( \/ p.market_id_len > MaxMarketIdLen
                         \/ p.title_len > MaxTitleLen
                         \/ p.description_len > MaxDescriptionLen
                         \/ p.category_len > MaxCategoryLen
                         \/ p.resolution_source_len > MaxResolutionSourceLen
                         \/ p.creator_fee_bps > 1000
                         \/ p.platform_fee_bps > 500
                         \/ p.end_time <= clock
                         \/ p.end_time > clock + 365 * 24 * 60 * 60 ) =>
                           /\ last'.err = "InvalidConfiguration"
                           /\ UNCHANGED << instr_vars, liquidity_vars, create_vars >>
                    /\ last'.err = "Ok" =>
                           /\ market'.status = "Active"
                           /\ market_stats'.total_volume = 0
                           /\ market_stats'.yes_volume = 0
                           /\ market_stats'.no_volume = 0
                           /\ market_stats'.total_trades = 0
                           /\ market_stats'.unique_traders = 0
                           /\ market_stats'.total_liquidity = 0
        /\ (last'.op = "initialize_market" /\ lib_market = Unallocated) =>
              \A t \in LibTitleLens, d \in LibDescriptionLens, r \in LibResolutionTimes, lo \in LibMinBetAmounts :
                 InitializeMarket(t, d, r, lo) =>
                    /\ ( \/ t > LibMaxTitleLen
                         \/ d > LibMaxDescriptionLen
                         \/ r <= clock
                         \/ r > clock + 365 * 24 * 60 * 60 ) =>
                           /\ last'.err = "InvalidConfiguration"
                           /\ UNCHANGED lib_vars
                    /\ last'.err = "Ok" =>
                           /\ lib_market'.status = "Active"
                           /\ lib_market'.total_volume = 0
                           /\ lib_market'.total_yes_amount = 0
                           /\ lib_market'.total_no_amount = 0
      ]_vars

\* No step changes the deadline fields of an existing market of either
\* program.
C32_Frame ==
    /\ market # Unallocated =>
          /\ market'.resolution_time = market.resolution_time
          /\ market'.end_time = market.end_time
    /\ lib_market # Unallocated =>
          lib_market'.resolution_time = lib_market.resolution_time

\* The deadline fields are left unchanged by every operation after the
\* creation.
C32_DeadlineUnchanged == [][ C32_Frame ]_vars

\* C32: the resolution deadline of a market is written at its creation,
\* market.resolution_time being the deadline given to the creation, and no
\* later operation (bet, deposit or withdrawal of liquidity, resolution,
\* cancellation, claim, refund), successful or refused, changes it.
C32_DeadlineFixed ==
    [][ /\ (last'.op = "create_market" /\ last'.err = "Ok") =>
              \A p \in CreateParams :
                 create_market(Creator, p) => market'.resolution_time = p.end_time
        /\ (last'.op = "initialize_market" /\ last'.err = "Ok") =>
              \A t \in LibTitleLens, d \in LibDescriptionLens, r \in LibResolutionTimes, lo \in LibMinBetAmounts :
                 InitializeMarket(t, d, r, lo) => lib_market'.resolution_time = r
        /\ C32_Frame
      ]_vars

\* C33: validate-then-commit.  A call that fails has written no field and
\* moved no token when it returns, so that every account is as before even
\* when the failed transaction is not rolled back.
C33_ValidateThenCommit ==
    [][ last'.err # "Ok" =>
          UNCHANGED << instr_vars, lib_vars, liquidity_vars, create_vars >>
      ]_vars

\* C34: the product constant k stored in the pool equals the product of the
\* pool's recorded reserves: of the two reserves written at the creation as
\* long as no deposit has been made, and of the two reserves that
\* add_liquidity records once a deposit has been accepted.
C34_ProductConstant ==
    IF lp_token_mint = 0
    THEN liquidity_pool.k_constant = liquidity_pool.yes_reserves * liquidity_pool.no_reserves
    ELSE liquidity_pool.k_constant = liquidity_pool.outcome_a_reserve * liquidity_pool.outcome_b_reserve

\* C35: an accepted add_liquidity(a, b) takes exactly a and b from the
\* provider's two outcome token accounts into the two vaults of the pool and
\* adds exactly a and b to the recorded reserves and to the amounts
\* contributed by the provider's position, also when the deposit is not in
\* the ratio of the pool: the LP tokens minted are those of the binding
\* side, and nothing of the other side is returned.
C35_FullDeposit ==
    [][ (last'.op = "add_liquidity" /\ last'.err = "Ok") =>
          \A u \in Bettors, a \in LiquidityAmounts, b \in LiquidityAmounts, lo \in MinLpTokens :
             add_liquidity(u, a, b, lo) =>
                /\ outcome_a_vault' = outcome_a_vault + a
                /\ outcome_b_vault' = outcome_b_vault + b
                /\ provider_outcome_a_account'[u] = provider_outcome_a_account[u] - a
                /\ provider_outcome_b_account'[u] = provider_outcome_b_account[u] - b
                /\ \A v \in Bettors \ {u} :
                      /\ provider_outcome_a_account'[v] = provider_outcome_a_account[v]
                      /\ provider_outcome_b_account'[v] = provider_outcome_b_account[v]
                /\ liquidity_pool'.outcome_a_reserve = liquidity_pool.outcome_a_reserve + a
                /\ liquidity_pool'.outcome_b_reserve = liquidity_pool.outcome_b_reserve + b
                /\ user_liquidity_position'[u].outcome_a_contributed = user_liquidity_position[u].outcome_a_contributed + a
                /\ user_liquidity_position'[u].outcome_b_contributed = user_liquidity_position[u].outcome_b_contributed + b
                /\ lp_token_mint > 0 =>
                      /\ lp_token_mint' - lp_token_mint <= (a * lp_token_mint) \div outcome_a_vault
                      /\ lp_token_mint' - lp_token_mint <= (b * lp_token_mint) \div outcome_b_vault
      ]_vars

\* C35 witness: a deposit of (10000, 5000) into a pool holding (5000, 5000)
\* for 5000 LP tokens was taken in full and minted the 5000 LP tokens of
\* side B.
C35_Witness ==
    /\ last = Result("add_liquidity", "Ok", 5000)
    /\ lp_token_mint = 10000
    /\ outcome_a_vault = 15000
    /\ outcome_b_vault = 10000
    /\ liquidity_pool.outcome_a_reserve = 15000
    /\ liquidity_pool.outcome_b_reserve = 10000

\* What a claim by the owner of the position of  o  would be paid now by
\* claim_winnings.rs: nothing for a claimed or losing position.
OwedTo(o) ==
    IF position[o].initialized /\ ~position[o].claimed /\ WinningsOf(o).err = "Ok"
    THEN WinningsOf(o).value
    ELSE 0

\* The same for the bet of  o  in lib.rs.
LibOwedTo(o) ==
    IF /\ bet[o].bettor # DefaultPubkey
       /\ ~bet[o].claimed
       /\ bet[o].outcome = (lib_market.resolved_outcome = Yes)
    THEN lib_winnings(bet[o].amount, lib_market.total_yes_amount,
                      lib_market.total_no_amount, lib_market.resolved_outcome = Yes)
    ELSE 0

\* The amount the Position accounts hold on outcome  o.
PositionStake(o) ==
    LET of(u) == IF position[u].initialized /\ position[u].outcome = o
                 THEN position[u].amount ELSE 0
    IN of("alice") + of("bob")

\* The accounts of claim_winnings.rs are those a resolution would leave:
\* the positions add up to the pools, and the vault holds the pools less
\* the protocol fee and less what has been claimed.
FundedVault ==
    LET pool == market.yes_pool + market.no_pool
    IN /\ PositionStake(Yes) = market.yes_pool
       /\ PositionStake(No) = market.no_pool
       /\ \A u \in Bettors : ~position[u].claimed
       /\ market.total_claimed = 0
       /\ claim_vault = pool - ProtocolFee(pool, market.protocol_fee_rate)

\* C36: vault solvency.  On a resolved market whose vault was funded with
\* the pools less the protocol fee, the vault the claims are paid from
\* holds at least the sum of what claim_winnings would pay to the winning
\* positions that have not claimed yet.
C36_VaultSolvency ==
    /\ (program = "instructions" /\ market.status = "Resolved" /\ FundedVault) =>
           claim_vault >= OwedTo("alice") + OwedTo("bob")
    /\ (program = "lib" /\ lib_market.status = "Resolved") =>
           market_vault >= LibOwedTo("alice") + LibOwedTo("bob")

\* The time from which the market of the running program can be resolved.
Deadline == IF program = "instructions" THEN market.resolution_time ELSE lib_market.resolution_time

\* C37: the clock never goes back; a bet or a cancellation succeeds only
\* strictly before the deadline and a resolution only at or after it; from
\* the deadline on no bet and no cancellation succeeds, and the totals of
\* the outcomes and the total volume stay as they are, so that they are in
\* every later state what they were at the resolution.
C37_DeadlineSeparation ==
    [][ /\ clock' >= clock
        /\ (last'.op \in {"place_bet", "cancel"} /\ last'.err = "Ok") => clock < Deadline
        /\ (last'.op = "resolve" /\ last'.err = "Ok") => clock >= Deadline
        /\ clock >= Deadline =>
              /\ last'.op \in {"place_bet", "cancel"} => last'.err # "Ok"
              /\ \A i \in OutcomeIds :
                    market'.outcomes[i].total_amount = market.outcomes[i].total_amount
              /\ market'.total_volume = market.total_volume
              /\ lib_market'.total_yes_amount = lib_market.total_yes_amount
              /\ lib_market'.total_no_amount = lib_market.total_no_amount
              /\ lib_market'.total_volume = lib_market.total_volume
      ]_vars

\* C37 witness: after the deadline of a market that holds bets and has not
\* been resolved yet, a bet was refused because the deadline has passed.
C37_Witness ==
    /\ clock >= Deadline
    /\ program = "instructions"
    /\ market.status = "Active"
    /\ market.total_volume > 0
    /\ last = Result("place_bet", "MarketExpired", 0)

\* The bettors that have placed a bet in the market of lib.rs.
Bets == { o \in Bettors : bet[o].bettor # DefaultPubkey }

\* C38: on the market of lib.rs a refund is paid only when the market is
\* Cancelled, only for a bet not yet claimed, and for exactly its stake, out
\* of the vault to the bettor; a refund asked by the bettor fails on a
\* market that is not Cancelled and, on a Cancelled one, with
\* AlreadyClaimed when the bet has been refunded; a refund asked by anyone
\* else fails; no claim succeeds on a Cancelled market and no refund on a
\* Resolved one; and once every bet of a Cancelled market is refunded the
\* stakes returned add up to the total volume and the vault is empty.
C38_RefundOnce ==
    [][ /\ (last'.op = "refund" /\ last'.err = "Ok") =>
              /\ lib_market.status = "Cancelled"
              /\ \E o \in Bets :
                    /\ ~bet[o].claimed /\ bet'[o].claimed
                    /\ last'.paid = bet[o].amount
                    /\ market_vault' = market_vault - bet[o].amount
                    /\ bettor_token_account'[o] = bettor_token_account[o] + bet[o].amount
                    /\ \A v \in Bets \ {o} : bet'[v] = bet[v]
        /\ last'.op = "refund" =>
              \A s \in Signers, o \in Bets :
                 refund_bet(s, o) =>
                    /\ s # o => last'.err # "Ok"
                    /\ (s = o /\ lib_market.status # "Cancelled") =>
                           last'.err = "MarketNotCancelled"
                    /\ (s = o /\ lib_market.status = "Cancelled" /\ bet[o].claimed) =>
                           last'.err = "AlreadyClaimed"
        /\ (program = "lib" /\ last'.op = "claim" /\ lib_market.status = "Cancelled") =>
              last'.err # "Ok"
        /\ (program = "lib" /\ lib_market'.status = "Cancelled" /\ \A o \in Bets : bet'[o].claimed) =>
              /\ market_vault' = 0
              /\ (IF bet'["alice"].claimed THEN bet'["alice"].amount ELSE 0)
                   + (IF bet'["bob"].claimed THEN bet'["bob"].amount ELSE 0)
                     = lib_market'.total_volume
              /\ \A o \in Bets : bettor_token_account'[o] = 0
      ]_vars

\* C38 witness: both bets of a cancelled market have been refunded, the
\* vault is empty, and another refund was refused with AlreadyClaimed.
C38_Witness ==
    /\ program = "lib"
    /\ lib_market.status = "Cancelled"
    /\ Bets = Bettors
    /\ \A o \in Bets : bet[o].claimed
    /\ market_vault = 0
    /\ lib_market.total_volume > 0
    /\ last = Result("refund", "AlreadyClaimed", 0)

\* C39: the resolution of a market never fails for the size of its pool:
\* for every total pool, every fee rate of at most 10000 bps and every
\* winning pool within the total, the fee and the payout ratio of resolve
\* are computed without an arithmetic error.
C39_ResolveAlways ==
    ( /\ calc.fn = "payout_ratio"
      /\ WideLeq(calc.y, Wide(BPS))
      /\ WideLeq(calc.z, calc.x) ) =>
        calc.err = "Ok"

====
